---- MODULE Spec2Model ----
(***************************************************************************)
(* Hands-free headset controller: the voice enhancement pipeline           *)
(* (audio_preprocessing.py, AudioPreprocessor) as called by the audio loop *)
(* of audio_manager.py.                                                    *)
(*                                                                         *)
(* Representation of sample vectors.  A 16-bit PCM frame is a sequence of  *)
(* bytes (0..255), decoded little-endian as numpy does.  A float vector of *)
(* the pipeline is a record [pcm, ops, n]:                                 *)
(*   pcm  the int16 samples it was decoded from; the float value of        *)
(*        sample i is pcm[i] / 32768, which float32 represents exactly;    *)
(*   ops  the numeric transforms applied since decoding, in order.  The    *)
(*        transforms are scipy/numpy/speexdsp numerics (lfilter, rfft,     *)
(*        tanh, the NLMS recursion): they are kept as opaque, injective    *)
(*        symbols and never assumed to leave the data unchanged;           *)
(*   n    the length of the vector.                                        *)
(* With ops = <<>> the vector is exactly pcm / 32768.                      *)
(* Time is counted in blocks of Block = 32 samples, the largest unit that  *)
(* divides every length of the program (160, 320 and 960-sample frames,    *)
(* the 96-sample SCO read, the 512-point FFT, the 8192-sample deque): one  *)
(* element of a vector stands for 32 consecutive equal samples, and one    *)
(* pair of bytes for their 64 bytes.                                       *)
(* Stage state that is a float vector or scalar (hp_zi, nlms_weights,      *)
(* noise_profile, agc_gain) is kept as its initial value or "adapted";     *)
(* which fields a call assigns is recorded in call.writes.                 *)
(***************************************************************************)
EXTENDS Integers, Sequences, FiniteSets, TLC

\* ------------------------------------------------------------ constants
fft_size == 512
noise_estimation_frames == 25
window_size == 100
timestamps_maxlen == 10
latency_window == 5
noise_window == 50
aec_filter_length == 1024
nlms_taps == 512
frame_size_ms == 20
sco_mtu == 48

\* samples per element of a vector
Block == 2 ^ 5

\* deque(maxlen=self.aec_filter_length * 8)
speaker_buffer_maxlen == (aec_filter_length * 8) \div Block

\* the length of the padded FFT input and of the irfft output
fft_len == fft_size \div Block

\* ------------------------------------------------------------ bounds
\* Spec: every configuration, short runs
MaxFrames == 2
MaxPushes == 4
\* SpecRing: one configuration, the deque filled past its capacity
RingFrames == 1
RingPushes == 87
\* SpecThreads: capture and playback threads interleaved step by step
ThreadFrames == 2
ThreadPushes == 2
\* SpecCalibration: runs that leave calibration, with resets
CalibrationFrames == 27
CalibrationPushes == 1
\* SpecMonitor: frames through the pipeline and the monitor (for the
\* monitor, the frames whose level it has recorded)
MonitorFrames == 2
\* SpecLatency: capture and output timestamps recorded in any order
LatencyStamps == 5
\* SpecWindow: a monitor with a short window, filled and reset
WindowFrames == 3
WindowStamps == 1
\* SpecQuality: background noise for NoisePrefix frames, then any frames up
\* to QualityFrames, past the 50 samples the noise floor waits for
NoisePrefix == 48
QualityFrames == 52
QualityStamps == 4

\* configurations explored: narrow-band and wide-band voice (CVSD, mSBC) and
\* the rate of a 48 kHz sound card
SampleRates == {8000, 16000, 48000}
\* noise reduction levels for runs that leave calibration
NoiseLevels == {0, 1, 3}

VARIABLES
    sample_rate, enable_highpass, enable_aec, enable_noise_reduction,
    noise_reduction_level, enable_agc, speex_echo, vad,
    hp_zi, nlms_weights, noise_profile, noise_frames_collected, agc_gain,
    frames_processed, speaker_buffer, speaker_buffer_lock,
    call, pushed,
    pc_capture, pc_playback, c_run, c_data, c_seen, c_ref, p_pending, committed,
    rms_buffer, peak_buffer, clip_buffer, voice_buffer, noise_samples, noise_floor,
    frames_monitored, total_clipping_frames,
    capture_timestamps, output_timestamps, clock, mcall,
    self_window_size, current_codec, current_sample_rate,
    stop_event, audio_thread, audio_lock, audio_state, worker, pc_stop,
    capture_device, playback_device, lcall,
    agc_gain_value, total_gain_applied, acall,
    nlms_weights_value, ncall,
    preprocessor, sco_socket, heard, rx, rx_frame, reference_log, playback_log,
    call_state, rfcomm_socket, call_indicator, led, ccall,
    bt_state, link, auto_reconnect, reconnect_attempts, reconnect_delay,
    reconnect_max_delay, last_connected_device, stop_reconnect_event,
    reconnect_thread, rthread, pc_stopper, pending

\* constructor arguments and what the constructor derives from them
config == <<sample_rate, enable_highpass, enable_aec, enable_noise_reduction,
            noise_reduction_level, enable_agc, vad, self_window_size>>
\* fields process_frame may assign
stage_state == <<hp_zi, nlms_weights, noise_profile, noise_frames_collected,
                 agc_gain, frames_processed, speex_echo>>
\* the two threads' positions and locals
threads == <<pc_capture, pc_playback, c_run, c_data, c_seen, c_ref, p_pending, committed>>
\* the AudioMonitor's fields, the wall clock in ms and its last call
monitor == <<rms_buffer, peak_buffer, clip_buffer, voice_buffer, noise_samples,
             noise_floor, frames_monitored, total_clipping_frames,
             capture_timestamps, output_timestamps, clock, mcall,
             current_codec, current_sample_rate>>
\* the AudioManager's worker thread, its stop signal and the caller inside
\* stop_audio_loop
loop == <<stop_event, audio_thread, audio_lock, audio_state, worker, pc_stop,
          capture_device, playback_device, lcall>>
\* the number self.agc_gain holds and the sum of the gains applied, in
\* millionths, and the last call that was followed in numbers
gains == <<agc_gain_value, total_gain_applied, acall>>
\* what the actions on the pipeline, the monitor and the loop leave alone
\* the numbers self.nlms_weights holds, in thousandths, and the last call of
\* the NLMS filter that was followed in numbers
echo == <<nlms_weights_value, ncall>>
\* the way to the loudspeaker: whether the manager has a preprocessor, the
\* SCO socket, the frames heard so far, where the loop's receive path
\* stands and with which frame, the frames update_speaker_signal was
\* called with and the frames written to the playback device
speaker == <<preprocessor, sco_socket, heard, rx, rx_frame, reference_log,
             playback_log>>
\* what lies beyond the pipeline and its numbers
\* the call manager: CallManager.state, its RFCOMM socket, indicators['call'],
\* the LED pattern the headset shows, and the last call of the manager
phone == <<call_state, rfcomm_socket, call_indicator, led, ccall>>
\* the Bluetooth manager: BluetoothManager.state, whether BlueZ holds the
\* device connected, the reconnect settings, _last_connected_device, the
\* _stop_reconnect event, _reconnect_thread, the reconnect threads there
\* have been, where a caller of stop_reconnect stands, and whether a
\* disconnect still waits for its reconnect attempt
bluetooth ==
    <<bt_state, link, auto_reconnect, reconnect_attempts, reconnect_delay,
      reconnect_max_delay, last_connected_device, stop_reconnect_event,
      reconnect_thread, rthread, pc_stopper, pending>>
beyond == <<speaker, phone, bluetooth>>
others == <<gains, echo, beyond>>
vars == <<config, stage_state, speaker_buffer, speaker_buffer_lock, call, pushed, threads,
          monitor, loop, others>>

\* self.frame_size = int(sample_rate * frame_size_ms / 1000)
frame_size == ((sample_rate * frame_size_ms) \div 1000) \div Block

Min(a, b) == IF a < b THEN a ELSE b
Max(a, b) == IF a > b THEN a ELSE b

\* ------------------------------------------------------------ FrameCodec
\* one int16 from its two little-endian bytes
ToInt16(lo, hi) ==
    LET u == lo + 256 * hi IN IF u >= 32768 THEN u - 65536 ELSE u

\* np.frombuffer(data, dtype=np.int16): needs a whole number of elements
FromBufferOk(data) == Len(data) % 2 = 0

FromBuffer(data) ==
    [i \in 1..(Len(data) \div 2) |-> ToInt16(data[2 * i - 1], data[2 * i])]

\* faulty variant: a clip symmetric about zero
ClipSymmetric(s) == Max(-32767, Min(32767, s))

\* np.clip(x * 32768.0, -32768, 32767) on an exact vector
ClipInt16(s) == Max(-32768, Min(32767, s))

\* ndarray.astype(np.int16).tobytes(): little-endian two's complement
ToBytes(samples) ==
    [i \in 1..(2 * Len(samples)) |->
        LET s == samples[(i + 1) \div 2]
            u == IF s < 0 THEN s + 65536 ELSE s
        IN IF i % 2 = 1 THEN u % 256 ELSE u \div 256]

\* audio_int16.astype(np.float32) / 32768.0
ToFloat(samples) == [pcm |-> samples, ops |-> <<>>, n |-> Len(samples)]

\* faulty variant: a deque without maxlen
DequeAppendUnbounded(q, x, maxlen) == Append(q, x)

\* the value process_frame returns for a float vector: its bytes when the
\* vector is exact, otherwise only their number and the transforms applied
Encode(audio) ==
    [nbytes |-> 2 * audio.n,
     ops    |-> audio.ops,
     bytes  |-> IF audio.ops = <<>>
                THEN ToBytes([i \in 1..Len(audio.pcm) |-> ClipInt16(audio.pcm[i])])
                ELSE <<>>]

NoOutput == [nbytes |-> 0, ops |-> <<>>, bytes |-> <<>>]

\* ------------------------------------------------------------ levels
\* sum of squares of s[lo..hi], saturated at 10^9 to stay in range
RECURSIVE SumSq(_, _, _)
SumSq(s, lo, hi) ==
    IF lo > hi THEN 0
    ELSE IF lo = hi THEN Min(1000000000, s[lo] * s[lo])
    ELSE LET mid == (lo + hi) \div 2
         IN Min(1000000000, SumSq(s, lo, mid) + SumSq(s, mid + 1, hi))

\* rms = np.sqrt(np.mean(audio ** 2)) of an exact vector, classified against
\* the two thresholds the code uses (1e-6 in the AGC, 0.01 in the fallback
\* VAD).  mean = sum / (n * 2^30); an empty vector has mean nan.
ExactLevel(pcm) ==
    LET n == Len(pcm)
        ss == SumSq(pcm, 1, n)
    IN IF n = 0 THEN "nan"
       ELSE IF Min(ss, 2) * 1000000000 < n * 1073742 THEN "eps"
       ELSE IF ss > 107374 * n + (1824 * n) \div 10000 THEN "high"
       ELSE "low"

\* the levels a vector may have: computed when it is exact, any otherwise
LevelsOf(audio) ==
    IF audio.n = 0 THEN {"nan"}
    ELSE IF audio.ops = <<>> THEN {ExactLevel(audio.pcm)}
    ELSE {"eps", "low", "high"}

\* ------------------------------------------------------------ peaks
\* A bound on the magnitude of the vector in hand, in units of 1/32768:
\* max |x| * 32768 <= max, or nan when the vector holds NaN.
Abs(x) == IF x < 0 THEN 0 - x ELSE x

\* np.max(np.abs(x)) of an exact vector (0 for none)
PeakOf(pcm) ==
    LET S == {Abs(pcm[i]) : i \in 1..Len(pcm)}
    IN IF S = {} THEN 0 ELSE CHOOSE m \in S : \A x \in S : x <= m

\* no bound is known after a filter, which may overshoot
PeakUnlimited == 2 ^ 20

ExactPeak(pcm) == [nan |-> FALSE, max |-> PeakOf(pcm)]
AfterFilter(peak) == [peak EXCEPT !.max = PeakUnlimited]

\* np.clip(self.agc_gain, 0.5, 10.0): the largest gain
agc_gain_max == 10

\* rms < 1e-6 bounds every sample of a frame of up to 1024 samples by
\* 1e-6 * sqrt(1024) = 3.2e-5 of full scale, about one unit
EpsPeak == 2

\* faulty variant: gain without the soft limiter
NoLimit(max) == max

\* np.tanh(gained * 2.0) / 2.0: |tanh(2x) / 2| <= min(|x|, 0.5)
SoftLimit(max) == Min(max, 16384)

\* gained = audio * self.agc_gain, gain at most agc_gain_max
Gained(max) == Min(PeakUnlimited, agc_gain_max * max)

\* ------------------------------------------------------------ EchoReference
\* faulty variant: a deque without maxlen
DequeExtendUnbounded(buffer, samples) == buffer \o samples

\* deque.extend on a deque with maxlen: append at the right, drop from the left
DequeExtend(buffer, samples) ==
    LET all == buffer \o samples
        k == Len(all)
    IN IF k <= speaker_buffer_maxlen THEN all
       ELSE SubSeq(all, k - speaker_buffer_maxlen + 1, k)

\* if len(self.speaker_buffer) < len(audio)
InsufficientReference(buffer, n) == Len(buffer) < n

\* np.array(list(self.speaker_buffer)[:len(audio)])
ReferenceSlice(buffer, n) == SubSeq(buffer, 1, Min(n, Len(buffer)))

\* ------------------------------------------------------------ the object
Self ==
    [hp_zi |-> hp_zi, nlms_weights |-> nlms_weights,
     noise_profile |-> noise_profile,
     noise_frames_collected |-> noise_frames_collected,
     agc_gain |-> agc_gain, frames_processed |-> frames_processed,
     speex_echo |-> speex_echo]

\* The progress of one process_frame call: the object, the vector in hand,
\* the exception raised (if any), the stages entered, the fields assigned.
\* A stage is the set of ways it can end: one for each answer of an
\* external engine and each level of a vector whose values are opaque.
StartRun(self, audio) ==
    [self |-> self, audio |-> audio, exc |-> "", raised |-> "", stages |-> <<>>,
     writes |-> {}, aec |-> "off", ref |-> <<>>, aec_in |-> audio,
     aec_out |-> audio, voice |-> "unasked", voiced |-> "unasked",
     nr |-> "off", nr_in |-> audio, nr_out |-> audio, profile |-> "kept",
     peak |-> ExactPeak(audio.pcm)]

Enter(r, stage) == [r EXCEPT !.stages = Append(@, stage)]

\* an exception leaves the stage that was entered last
Raise(r, exc) == [r EXCEPT !.exc = exc, !.raised = r.stages[Len(r.stages)]]

\* ------------------------------------------------------------ HighPassStage
\* processed, self.hp_zi = signal.lfilter(b, a, processed, zi=self.hp_zi);
\* whether lfilter accepts an empty vector depends on the scipy build
HighPass(r) ==
    IF r.audio.n = 0
    THEN {Raise(Enter(r, "highpass"), "ValueError"),
          [Enter(r, "highpass") EXCEPT !.writes = @ \cup {"hp_zi"}]}
    ELSE {[Enter(r, "highpass") EXCEPT !.audio.ops = Append(@, "highpass"),
                                       !.peak = AfterFilter(@),
                                       !.self.hp_zi = "adapted",
                                       !.writes = @ \cup {"hp_zi"}]}

\* ------------------------------------------------------------ EchoCancellationStage
\* _apply_nlms_aec: one weight update per mic sample, output = error signal
ApplyNlmsAec(r, ref, how) ==
    IF r.audio.n = 0
    THEN [r EXCEPT !.aec = how, !.ref = ref]
    ELSE [r EXCEPT !.audio.ops = Append(@, "nlms"),
                   !.peak = AfterFilter(@),
                   !.self.nlms_weights = "adapted",
                   !.writes = @ \cup {"nlms_weights"},
                   !.aec = how, !.ref = ref]

\* self.speex_echo.process(mic, speaker) returned: converted back to float.
\* The engine was built for frame_size samples and returns one frame.
SpeexReturned(r, ref) ==
    [r EXCEPT !.audio.ops = Append(@, "speex"),
              !.peak = [nan |-> FALSE, max |-> 32768],
              !.audio.n = frame_size,
              !.aec = "speex", !.ref = ref]

\* faulty variant: the failed engine is dropped for the frames to come
SpeexRaisedDropsEngine(r, ref) ==
    [ApplyNlmsAec(r, ref, "speex_failed_nlms") EXCEPT !.self.speex_echo = "None"]

\* self.speex_echo.process raised: except Exception, fall through to NLMS
SpeexRaised(r, ref) == ApplyNlmsAec(r, ref, "speex_failed_nlms")

\* faulty variant: the filter runs against the short reference
NoReferenceAdapts(r) == ApplyNlmsAec(r, <<>>, "noref")

\* with self.speaker_buffer_lock: return audio
NoReference(r) == [r EXCEPT !.aec = "noref"]

\* _apply_aec after the locked block, the reference slice in hand
CancelEcho(r, ref) ==
    IF r.self.speex_echo # "None"
    THEN {SpeexReturned(r, ref), SpeexRaised(r, ref)}
    ELSE {ApplyNlmsAec(r, ref, "nlms")}

\* _apply_aec begins: the stage is entered with the vector in hand
EnterAec(r) == [Enter(r, "aec") EXCEPT !.aec_in = r.audio]

\* _apply_aec returns the vector in hand
LeaveAec(r) == [r EXCEPT !.aec_out = r.audio]

\* _apply_aec, given the buffer as read under the lock
ApplyAec(r, buffer) ==
    IF InsufficientReference(buffer, r.audio.n)
    THEN {LeaveAec(NoReference(EnterAec(r)))}
    ELSE {LeaveAec(x) : x \in CancelEcho(EnterAec(r), ReferenceSlice(buffer, r.audio.n))}

\* ------------------------------------------------------------ VoiceActivityStage
\* faulty variant: any level above the epsilon counts as voice
EnergyVadAboveEps(audio) ==
    {[has_voice |-> l \in {"low", "high"}, how |-> "energy"] : l \in LevelsOf(audio)}

\* rms > 0.01 (False for the nan of an empty vector)
EnergyVad(audio) == {[has_voice |-> l = "high", how |-> "energy"] : l \in LevelsOf(audio)}

\* _detect_voice_activity: the detector's answer, or the energy rule when
\* there is no detector or it raises
DetectVoiceActivity(audio) ==
    IF vad = "None"
    THEN EnergyVad(audio)
    ELSE {[has_voice |-> b, how |-> "vad"] : b \in BOOLEAN}
         \cup {[has_voice |-> v.has_voice, how |-> "vad_failed"] : v \in EnergyVad(audio)}

\* ------------------------------------------------------------ NoiseReductionStage
\* np.pad(audio, (0, self.fft_size - len(audio))) rejects a negative width
PadOk(audio) == audio.n <= fft_len

\* _update_noise_profile, after a successful pad: the magnitude itself when
\* there is no profile, else the moving average with the old profile
UpdateNoiseProfile(r) ==
    [r EXCEPT !.self.noise_profile = "set",
              !.profile = IF r.self.noise_profile = "None" THEN "fresh" ELSE "ema",
              !.writes = @ \cup {"noise_profile"}]

\* _apply_noise_reduction begins: the stage is entered with the vector in hand
EnterNr(r) == [Enter(r, "noise_reduction") EXCEPT !.nr_in = r.audio]

\* _apply_noise_reduction returns the vector in hand
LeaveNr(r, how) == [r EXCEPT !.nr = how, !.nr_out = r.audio]

\* faulty variant: the frame is already cleaned while calibrating
CalibrateSubtracts(r) ==
    IF ~PadOk(r.audio)
    THEN Raise(r, "ValueError")
    ELSE LeaveNr([UpdateNoiseProfile(r) EXCEPT
                     !.self.noise_frames_collected = @ + 1,
                     !.writes = @ \cup {"noise_frames_collected"},
                     !.audio.ops = Append(@, "spectral_subtraction")],
                 "calibrate")

\* the calibration branch of _apply_noise_reduction
Calibrate(r) ==
    IF ~PadOk(r.audio)
    THEN Raise(r, "ValueError")
    ELSE LeaveNr([UpdateNoiseProfile(r) EXCEPT
                     !.self.noise_frames_collected = @ + 1,
                     !.writes = @ \cup {"noise_frames_collected"}],
                 "calibrate")

\* the words for the voice decision
Voiced(v) == IF v.has_voice THEN "voice" ELSE "silence"

\* faulty variant: the profile follows every frame, voice or not
SpectralSubtractionAlwaysUpdates(r, v) ==
    IF ~PadOk(r.audio)
    THEN Raise([r EXCEPT !.voice = v.how, !.voiced = Voiced(v)], "ValueError")
    ELSE LeaveNr([UpdateNoiseProfile(r)
                  EXCEPT !.voice = v.how,
                         !.voiced = Voiced(v),
                         !.peak = AfterFilter(@),
                         !.audio.ops = Append(@, "spectral_subtraction"),
                         !.audio.n = Min(fft_len, r.audio.n)],
                 "subtract")

\* the steady branch of _apply_noise_reduction, the voice decision made;
\* irfft gives fft_size samples, of which clean_audio[:len(audio)] is kept
SpectralSubtraction(r, v) ==
    IF ~PadOk(r.audio)
    THEN Raise([r EXCEPT !.voice = v.how, !.voiced = Voiced(v)], "ValueError")
    ELSE LeaveNr([(IF ~v.has_voice /\ noise_reduction_level > 0
                   THEN UpdateNoiseProfile(r) ELSE r)
                  EXCEPT !.voice = v.how,
                         !.voiced = Voiced(v),
                         !.peak = AfterFilter(@),
                         !.audio.ops = Append(@, "spectral_subtraction"),
                         !.audio.n = Min(fft_len, r.audio.n)],
                 "subtract")

\* _apply_noise_reduction
ApplyNoiseReduction(r) ==
    IF r.self.noise_frames_collected < noise_estimation_frames
    THEN {Calibrate(EnterNr(r))}
    ELSE IF r.self.noise_profile = "None"
    THEN {LeaveNr(EnterNr(r), "no_profile")}
    ELSE {SpectralSubtraction(EnterNr(r), v) :
             v \in DetectVoiceActivity(r.audio)}

\* ------------------------------------------------------------ AutomaticGainStage
\* _apply_agc on a vector of the given level
AgcAtLevel(r, level) ==
    IF level = "eps"
    THEN [r EXCEPT !.peak.max = Min(@, EpsPeak)]
    ELSE [r EXCEPT
            !.self.agc_gain = IF level = "nan" \/ @ = "nan" THEN "nan" ELSE "adapted",
            !.writes = @ \cup {"agc_gain"},
            !.peak = IF r.audio.n = 0 THEN @
                     ELSE IF level = "nan" \/ r.self.agc_gain = "nan"
                     THEN [nan |-> TRUE, max |-> PeakUnlimited]
                     ELSE [nan |-> FALSE, max |-> SoftLimit(Gained(@.max))],
            !.audio.ops = IF r.audio.n = 0 THEN @ ELSE Append(@, "agc")]

ApplyAgc(r) == {AgcAtLevel(Enter(r, "agc"), l) : l \in LevelsOf(r.audio)}

\* ------------------------------------------------------------ ProcessingPipeline
Stage1(r) == IF r.exc = "" /\ enable_highpass THEN HighPass(r) ELSE {r}
Stage2(r, buffer) ==
    IF r.exc = "" /\ enable_aec THEN ApplyAec(r, buffer) ELSE {r}
Stage3(r) ==
    IF r.exc = "" /\ enable_noise_reduction THEN ApplyNoiseReduction(r) ELSE {r}
\* faulty variant: the AGC runs whatever happened before it
Stage4Regardless(r) == IF enable_agc THEN ApplyAgc(r) ELSE {r}
Stage4(r) ==
    IF r.exc = "" /\ enable_agc THEN ApplyAgc(r) ELSE {r}

\* the stages of process_frame after decoding, in the order of the code
RunStages(r0, buffer) ==
    UNION {UNION {UNION {Stage4(r3) : r3 \in Stage3(r2)}
                  : r2 \in Stage2(r1, buffer)}
           : r1 \in Stage1(r0)}

\* faulty variant: the frame is counted before the stages run
FinishAlways(r) ==
    [r EXCEPT !.self.frames_processed = @ + 1,
              !.writes = @ \cup {"frames_processed"}]

\* the end of process_frame: count and return, unless a stage raised
Finish(r) ==
    IF r.exc # "" THEN r
    ELSE [r EXCEPT !.self.frames_processed = @ + 1,
                   !.writes = @ \cup {"frames_processed"}]

\* the start of process_frame: np.frombuffer, astype, / 32768.0, copy
Decode(self, data) ==
    IF ~FromBufferOk(data)
    THEN Raise(Enter(StartRun(self, ToFloat(<<>>)), "decode"), "ValueError")
    ELSE StartRun(self, ToFloat(FromBuffer(data)))

\* process_frame(audio_data): the ways the call can end
ProcessFrame(self, buffer, data) ==
    {Finish(r) : r \in RunStages(Decode(self, data), buffer)}

\* ------------------------------------------------------------ inputs
\* n samples of value v as 16-bit PCM bytes
PcmFrame(n, v) == ToBytes([i \in 1..n |-> v])

\* frames the capture device may hand over: full frames of silence, of a
\* quiet and a loud level and of both full-scale values, and frames of the
\* wrong size (too short, too long, longer than the FFT, a stray byte,
\* nothing)
MicValues == {0, -1, 328, 32767, -32768}
MicFramesAt(n) ==
    {PcmFrame(n, v) : v \in MicValues}
    \cup {PcmFrame(n - 1, 32767), PcmFrame(n + 1, 32767),
          PcmFrame(fft_len + 1, 32767),
          Append(PcmFrame(n, 0), 0), <<>>}
MicFrames == MicFramesAt(frame_size)

\* one SCO read: recv(self.sco_mtu * 4) bytes of 16-bit samples
SpeakerChunk == ((sco_mtu * 4) \div 2) \div Block

\* the speaker samples are numbered in the order they are pushed
SpeakerFrame(first, n) == ToBytes([i \in 1..n |-> first + i])

\* ------------------------------------------------------------ actions
NoVector == ToFloat(<<>>)

NoCall ==
    [op |-> "none", data |-> <<>>, exc |-> "", raised |-> "", out |-> NoOutput,
     stages |-> <<>>, writes |-> {}, aec |-> "off", ref |-> <<>>,
     aec_in |-> NoVector, aec_out |-> NoVector, voice |-> "unasked",
     voiced |-> "unasked", nr |-> "off", nr_in |-> NoVector, nr_out |-> NoVector,
     profile |-> "kept", peak |-> ExactPeak(<<>>)]

\* what is kept of a finished process_frame call
CallOf(data, r) ==
    [op |-> "process_frame", data |-> data, exc |-> r.exc, raised |-> r.raised,
     out |-> IF r.exc = "" THEN Encode(r.audio) ELSE NoOutput,
     stages |-> r.stages, writes |-> r.writes, aec |-> r.aec, ref |-> r.ref,
     aec_in |-> IF r.aec = "off" THEN NoVector ELSE r.aec_in,
     aec_out |-> IF r.aec = "off" THEN NoVector ELSE r.aec_out,
     voice |-> r.voice, voiced |-> r.voiced, nr |-> r.nr,
     nr_in |-> IF r.nr = "off" THEN NoVector ELSE r.nr_in,
     nr_out |-> IF r.nr = "off" THEN NoVector ELSE r.nr_out,
     profile |-> r.profile,
     peak |-> IF r.exc = "" THEN r.peak ELSE ExactPeak(<<>>)]

\* process_frame assigns the object's fields
Assign(r) ==
    /\ hp_zi' = r.self.hp_zi
    /\ nlms_weights' = r.self.nlms_weights
    /\ noise_profile' = r.self.noise_profile
    /\ noise_frames_collected' = r.self.noise_frames_collected
    /\ agc_gain' = r.self.agc_gain
    /\ frames_processed' = r.self.frames_processed
    /\ speex_echo' = r.self.speex_echo

\* _audio_loop: processed_data = process_frame(data), or the raw data when
\* process_frame raises ("Fallback to unprocessed")
ProcessedData(c) ==
    IF c.exc = "" THEN c.out
    ELSE [nbytes |-> Len(c.data), ops |-> <<>>, bytes |-> c.data]

\* faulty variant: no lock at all
LockIgnored(lock) == TRUE

\* with self.speaker_buffer_lock: the lock can be taken when nobody holds it
LockFree(lock) == lock = "free"

\* process_frame(audio_data) on one of the given frames
ProcessFrameOf(frames, maxFrames) ==
    /\ frames_processed < maxFrames
    /\ LockFree(speaker_buffer_lock)
    /\ \E data \in frames :
       \E r \in ProcessFrame(Self, speaker_buffer, data) :
          /\ Assign(r)
          /\ call' = CallOf(data, r)
    /\ UNCHANGED <<others, loop, monitor, config, speaker_buffer, speaker_buffer_lock, pushed, threads>>

ProcessFrameCall(maxFrames) == ProcessFrameOf(MicFrames, maxFrames)

\* faulty variant: only the counter is cleared
ResetKeepsProfile ==
    /\ noise_frames_collected' = 0
    /\ call' = [NoCall EXCEPT !.op = "reset_noise_profile",
                              !.writes = {"noise_frames_collected"}]
    /\ UNCHANGED <<others, loop, monitor, config, hp_zi, nlms_weights, noise_profile, agc_gain, frames_processed,
                   speex_echo, speaker_buffer, speaker_buffer_lock, pushed, threads>>

\* reset_noise_profile()
ResetNoiseProfile ==
    /\ noise_profile' = "None"
    /\ noise_frames_collected' = 0
    /\ call' = [NoCall EXCEPT !.op = "reset_noise_profile",
                              !.writes = {"noise_profile", "noise_frames_collected"}]
    /\ UNCHANGED <<others, loop, monitor, config, hp_zi, nlms_weights, agc_gain, frames_processed,
                   speex_echo, speaker_buffer, speaker_buffer_lock, pushed, threads>>

\* get_quality_metrics(): reads, assigns nothing
GetQualityMetrics ==
    /\ call' = [NoCall EXCEPT !.op = "get_quality_metrics"]
    /\ UNCHANGED <<others, loop, monitor, config, stage_state, speaker_buffer, speaker_buffer_lock,
                   pushed, threads>>

\* _detect_voice_activity(audio) called from outside process_frame, as the
\* audio loop does on the frame it has read
DetectVoiceActivityCall(frames) ==
    /\ \E data \in {d \in frames : FromBufferOk(d)} :
       \E v \in DetectVoiceActivity(ToFloat(FromBuffer(data))) :
          call' = [NoCall EXCEPT !.op = "_detect_voice_activity", !.data = data,
                                 !.voice = v.how, !.voiced = Voiced(v)]
    /\ UNCHANGED <<others, loop, monitor, config, stage_state, speaker_buffer,
                   speaker_buffer_lock, pushed, threads>>

\* update_speaker_signal(speaker_data)
UpdateSpeakerSignal(maxPushes) ==
    /\ pushed + SpeakerChunk <= maxPushes * SpeakerChunk
    /\ LockFree(speaker_buffer_lock)
    /\ IF ~enable_aec
       THEN /\ call' = [NoCall EXCEPT !.op = "update_speaker_signal"]
            /\ UNCHANGED <<speaker_buffer, pushed, committed>>
       ELSE /\ speaker_buffer' =
                  DequeExtend(speaker_buffer, FromBuffer(SpeakerFrame(pushed, SpeakerChunk)))
            /\ committed' = speaker_buffer'
            /\ pushed' = pushed + SpeakerChunk
            /\ call' = [NoCall EXCEPT !.op = "update_speaker_signal",
                                      !.writes = {"speaker_buffer"}]
    /\ UNCHANGED <<others, loop, monitor, config, stage_state, speaker_buffer_lock,
                   pc_capture, pc_playback, c_run, c_data, c_seen, c_ref, p_pending>>

\* ------------------------------------------------------------ AudioMonitor
\* deque.append on a deque with maxlen
DequeAppend(q, x, maxlen) ==
    IF Len(q) < maxlen THEN Append(q, x) ELSE Append(Tail(q), x)

\* np.abs on int16: -32768 has no positive counterpart and stays itself
AbsInt16(x) == IF x = -32768 THEN x ELSE Abs(x)

\* np.sum(np.abs(audio_int16) >= 32767)
ClippingSamples(pcm) == Cardinality({i \in 1..Len(pcm) : AbsInt16(pcm[i]) >= 32767})

\* rms > 0 for an exact vector
RmsPositive(pcm) == \E i \in 1..Len(pcm) : pcm[i] # 0

\* the whole part of np.mean(x ** 2) in units of 2^-30, and whether the
\* mean is whole: sum(a) / n = sum(a div n) + sum(a mod n) / n
RECURSIVE SumOver(_, _, _)
SumOver(f, lo, hi) ==
    IF lo > hi THEN 0
    ELSE IF lo = hi THEN f[lo]
    ELSE LET mid == (lo + hi) \div 2
         IN SumOver(f, lo, mid) + SumOver(f, mid + 1, hi)

MeanSquare(pcm) ==
    LET n == Len(pcm)
        quo == [i \in 1..n |-> (pcm[i] * pcm[i]) \div n]
        rem == [i \in 1..n |-> (pcm[i] * pcm[i]) % n]
        r == SumOver(rem, 1, n)
    IN [whole |-> SumOver(quo, 1, n) + r \div n, exact |-> r % n = 0]

\* the largest r in lo..hi with r * r <= x
RECURSIVE ISqrt(_, _, _)
ISqrt(x, lo, hi) ==
    IF lo >= hi THEN lo
    ELSE LET mid == (lo + hi + 1) \div 2
         IN IF mid * mid <= x THEN ISqrt(x, mid, hi) ELSE ISqrt(x, lo, mid - 1)

\* rms = np.sqrt(np.mean(audio_float ** 2)) in units of 1/32768, as the two
\* whole numbers it lies between (the same number twice when it is whole)
RmsOf(pcm) ==
    LET ms == MeanSquare(pcm)
        r == ISqrt(ms.whole, 0, 32768)
    IN [nan |-> FALSE, lo |-> r,
        hi |-> IF ms.exact /\ r * r = ms.whole THEN r ELSE r + 1]

\* np.sqrt(np.mean(...)) of an empty array
RmsNan == [nan |-> TRUE, lo |-> 0, hi |-> 0]

\* list[-k:]
LastK(q, k) == SubSeq(q, IF Len(q) > k THEN Len(q) - k + 1 ELSE 1, Len(q))

\* the k-th smallest of the numbers in the sequence q
KthSmallest(q, k) ==
    LET vals == {q[i] : i \in 1..Len(q)}
    IN CHOOSE x \in vals :
          /\ Cardinality({i \in 1..Len(q) : q[i] < x}) < k
          /\ Cardinality({i \in 1..Len(q) : q[i] <= x}) >= k

\* twice np.median(q): the middle value, or the mean of the two middle ones
TwiceMedian(q) ==
    LET n == Len(q)
    IN IF n % 2 = 1 THEN 2 * KthSmallest(q, (n + 1) \div 2)
       ELSE KthSmallest(q, n \div 2) + KthSmallest(q, n \div 2 + 1)

\* np.median(self.noise_samples[-50:]) in units of 1/65536, between the
\* medians of the lower and of the upper ends
NoiseMedian(samples) ==
    LET last == LastK(samples, noise_window)
    IN [initial |-> FALSE,
        lo |-> TwiceMedian([i \in 1..Len(last) |-> last[i].lo]),
        hi |-> TwiceMedian([i \in 1..Len(last) |-> last[i].hi])]

\* self.noise_floor = 1e-6
InitialNoiseFloor == [initial |-> TRUE, lo |-> 0, hi |-> 0]

\* no metrics taken: the shape of what get_current_metrics returns
NoMetrics ==
    [taken |-> FALSE, rms |-> "none", quiet |-> FALSE, below80 |-> FALSE,
     snr_low |-> FALSE, clipping |-> [num |-> 0, den |-> 1],
     voice |-> [num |-> 0, den |-> 1], latency |-> [sum |-> 0, count |-> 0],
     codec |-> "", sample_rate |-> 0]

NoVerdict == [acceptable |-> TRUE, reason |-> ""]

NoStatistics ==
    [frames_monitored |-> 0, voice |-> [num |-> 0, den |-> 1],
     clipping_rate |-> [num |-> 0, den |-> 1]]

NoMonitorCall == [op |-> "none", data |-> <<>>, has_voice |-> FALSE, by |-> "", exc |-> "",
                  writes |-> {}, result |-> [sum |-> 0, count |-> 0],
                  metrics |-> NoMetrics, verdict |-> NoVerdict,
                  stats |-> NoStatistics]

\* what analyze_frame does to the monitor, as the fields' new values, the
\* exception raised and the fields assigned before it
AnalyzeFrameResult(data, has_voice) ==
    LET old == [rms_buffer |-> rms_buffer, peak_buffer |-> peak_buffer,
                clip_buffer |-> clip_buffer, voice_buffer |-> voice_buffer,
                noise_samples |-> noise_samples, noise_floor |-> noise_floor,
                frames_monitored |-> frames_monitored,
                total_clipping_frames |-> total_clipping_frames,
                exc |-> "", writes |-> {}]
        pcm == FromBuffer(data)
        clipped == ClippingSamples(pcm)
        quiet == ~has_voice /\ RmsPositive(pcm)
        samples == IF quiet THEN Append(noise_samples, RmsOf(pcm)) ELSE noise_samples
    IN IF ~FromBufferOk(data)
       THEN [old EXCEPT !.exc = "ValueError"]
       ELSE IF Len(pcm) = 0
       THEN \* np.mean of nothing is nan, np.max of nothing raises
            [old EXCEPT !.rms_buffer = DequeAppend(@, RmsNan, self_window_size),
                        !.exc = "ValueError",
                        !.writes = {"rms_buffer"}]
       ELSE [old EXCEPT
               !.rms_buffer = DequeAppend(@, RmsOf(pcm), self_window_size),
               !.peak_buffer = DequeAppend(@, PeakOf(pcm), self_window_size),
               !.clip_buffer = DequeAppend(@, [clipped |-> clipped, of |-> Len(pcm)],
                                           self_window_size),
               !.total_clipping_frames = IF clipped > 0 THEN @ + 1 ELSE @,
               !.voice_buffer = DequeAppend(@, IF has_voice THEN 1 ELSE 0, self_window_size),
               !.noise_samples = samples,
               !.noise_floor = IF quiet /\ Len(samples) > noise_window
                               THEN NoiseMedian(samples) ELSE @,
               !.frames_monitored = @ + 1,
               !.writes = {"rms_buffer", "peak_buffer", "clip_buffer", "voice_buffer",
                           "frames_monitored"}
                          \cup (IF clipped > 0 THEN {"total_clipping_frames"} ELSE {})
                          \cup (IF quiet THEN {"noise_samples"} ELSE {})
                          \cup (IF quiet /\ Len(samples) > noise_window
                                THEN {"noise_floor"} ELSE {})]

\* frames handed to the monitor and, in its runs, to the pipeline: silent
\* and full-scale frames, and frames of the wrong size
MonitorMicFrames ==
    {PcmFrame(frame_size, 0), PcmFrame(frame_size, 32767),
     PcmFrame(frame_size - 1, 32767), PcmFrame(fft_len + 1, 32767),
     Append(PcmFrame(frame_size, 0), 0), <<>>}

\* a frame and the voice flag passed with it, by a caller of its own
\* ("direct") or by the audio loop after _detect_voice_activity
Direct(frames) ==
    {[data |-> d, has_voice |-> b, by |-> "direct"] : d \in frames, b \in BOOLEAN}

\* analyze_frame(audio_data, has_voice) on one of the given inputs
AnalyzeFrameOf(inputs, maxFrames) ==
    /\ Len(rms_buffer) < maxFrames
    /\ frames_monitored < maxFrames
    /\ \E in \in inputs :
          \E a \in {AnalyzeFrameResult(in.data, in.has_voice)} :
             /\ rms_buffer' = a.rms_buffer
             /\ peak_buffer' = a.peak_buffer
             /\ clip_buffer' = a.clip_buffer
             /\ voice_buffer' = a.voice_buffer
             /\ noise_samples' = a.noise_samples
             /\ noise_floor' = a.noise_floor
             /\ frames_monitored' = a.frames_monitored
             /\ total_clipping_frames' = a.total_clipping_frames
             /\ mcall' = [NoMonitorCall EXCEPT !.op = "analyze_frame", !.data = in.data,
                                               !.has_voice = in.has_voice,
                                               !.by = in.by,
                                               !.exc = a.exc, !.writes = a.writes]
    /\ UNCHANGED <<others, loop, config, stage_state, speaker_buffer, speaker_buffer_lock, call,
                   current_codec, current_sample_rate,
                   pushed, threads, capture_timestamps, output_timestamps, clock>>

\* analyze_frame(audio_data, has_voice)
AnalyzeFrame(maxFrames) == AnalyzeFrameOf(Direct(MonitorMicFrames), maxFrames)

\* time.time() moves on between two calls, by a short or a long while (ms)
Delays == {10, 50}

\* the greatest of a set of numbers
SetMax(S) == CHOOSE x \in S : \A y \in S : y <= x

\* record_capture_timestamp(), the given while after the call before; a
\* run lasts no longer than maxStamps of the longest while
RecordCaptureAfter(delays, maxStamps) ==
    /\ Len(capture_timestamps) + Len(output_timestamps) < maxStamps
    /\ \E d \in delays :
          /\ clock + d <= maxStamps * SetMax(delays)
          /\ clock' = clock + d
          /\ capture_timestamps' = DequeAppend(capture_timestamps, clock', timestamps_maxlen)
    /\ mcall' = [NoMonitorCall EXCEPT !.op = "record_capture_timestamp",
                                      !.writes = {"capture_timestamps"}]
    /\ UNCHANGED <<others, loop, config, stage_state, speaker_buffer, speaker_buffer_lock, call,
                   current_codec, current_sample_rate,
                   pushed, threads, rms_buffer, peak_buffer, clip_buffer, voice_buffer,
                   noise_samples, noise_floor, frames_monitored, total_clipping_frames,
                   output_timestamps>>

\* record_output_timestamp(), the given while after the call before
RecordOutputAfter(delays, maxStamps) ==
    /\ Len(capture_timestamps) + Len(output_timestamps) < maxStamps
    /\ \E d \in delays :
          /\ clock + d <= maxStamps * SetMax(delays)
          /\ clock' = clock + d
          /\ output_timestamps' = DequeAppend(output_timestamps, clock', timestamps_maxlen)
    /\ mcall' = [NoMonitorCall EXCEPT !.op = "record_output_timestamp",
                                      !.writes = {"output_timestamps"}]
    /\ UNCHANGED <<others, loop, config, stage_state, speaker_buffer, speaker_buffer_lock, call,
                   current_codec, current_sample_rate,
                   pushed, threads, rms_buffer, peak_buffer, clip_buffer, voice_buffer,
                   noise_samples, noise_floor, frames_monitored, total_clipping_frames,
                   capture_timestamps>>

RecordCaptureTimestamp(maxStamps) == RecordCaptureAfter(Delays, maxStamps)

RecordOutputTimestamp(maxStamps) == RecordOutputAfter(Delays, maxStamps)

\* list(q)[-k:]
Tail5(q, k) == SubSeq(q, Max(1, Len(q) - k + 1), Len(q))

\* min(output_times, key=lambda x: abs(x - cap_time)): the first of the
\* nearest
ClosestOutput(outs, c) ==
    LET i == CHOOSE i \in 1..Len(outs) :
                /\ \A j \in 1..Len(outs) : Abs(outs[i] - c) <= Abs(outs[j] - c)
                /\ \A j \in 1..(i - 1) : Abs(outs[j] - c) > Abs(outs[i] - c)
    IN outs[i]

\* the latencies collected for caps[i..], as their sum and their number
RECURSIVE Latencies(_, _, _)
Latencies(caps, outs, i) ==
    IF i > Len(caps) THEN [sum |-> 0, count |-> 0]
    ELSE LET rest == Latencies(caps, outs, i + 1)
             o == ClosestOutput(outs, caps[i])
         IN IF o > caps[i]
            THEN [sum |-> rest.sum + (o - caps[i]), count |-> rest.count + 1]
            ELSE rest

\* estimate_latency(): np.mean(latencies) is sum / count, 0.0 for none
EstimateLatency(caps, outs) ==
    IF Len(caps) < 2 \/ Len(outs) < 2
    THEN [sum |-> 0, count |-> 0]
    ELSE Latencies(Tail5(caps, latency_window), Tail5(outs, latency_window), 1)

\* ------------------------------------------------------------ metrics
snr_frames == 50
latency_limit == 300

RECURSIVE Gcd(_, _)
Gcd(a, b) == IF b = 0 THEN a ELSE Gcd(b, a % b)

Lcm(a, b) == (a \div Gcd(a, b)) * b

\* the least common multiple of the frame lengths in the clipping window
RECURSIVE LcmSet(_)
LcmSet(S) ==
    IF S = {} THEN 1
    ELSE LET a == CHOOSE x \in S : TRUE
         IN CHOOSE l \in {Lcm(a, r) : r \in {LcmSet(S \ {a})}} : TRUE

LcmOf(q, i) == LcmSet({q[j].of : j \in i..Len(q)})

\* np.mean(list(self.clip_buffer)), each entry 100 * clipped / of, as a
\* fraction; 0.0 for an empty window
AvgClip(q) ==
    IF Len(q) = 0 THEN [num |-> 0, den |-> 1]
    ELSE LET l == LcmOf(q, 1)
             parts == [i \in 1..Len(q) |-> q[i].clipped * (l \div q[i].of)]
         IN [num |-> 100 * SumOver(parts, 1, Len(q)), den |-> l * Len(q)]

\* np.mean(list(self.voice_buffer)) * 100, as a fraction; 0.0 for an empty
\* window
AvgVoice(q) ==
    IF Len(q) = 0 THEN [num |-> 0, den |-> 1]
    ELSE [num |-> 100 * SumOver(q, 1, Len(q)), den |-> Len(q)]

\* the sum of the lower or of the upper ends of the rms window
RmsSum(q, e) == SumOver([i \in 1..Len(q) |-> q[i][e]], 1, Len(q))

HasNan(q) == \E i \in 1..Len(q) : q[i].nan

\* rms_level_db < -40.0 for avg_rms = sum / n units: 20 * log10(avg_rms)
\* of a positive avg_rms, else -100
QuietLevel(sum, n) == sum = 0 \/ 100 * sum < 32768 * n

\* faulty variant: a window of zeros reported at 0 dB, as the SNR is
Below80Positive(sum, n) == sum > 0 /\ 10000 * Min(sum, 4 * n) <= 32768 * n

\* rms_level_db <= -80.0
Below80(sum, n) == sum = 0 \/ 10000 * Min(sum, 4 * n) <= 32768 * n

\* snr_db < 10.0 for avg_rms = sum / n units and a noise floor of 1e-6
\* (floor2 = -1) or of floor2 / 2 units: snr_db is 20 * log10(avg_rms / noise_floor) when
\* avg_rms > noise_floor, else 0.0 (the square root of 10 taken as 3.162)
SnrLow(sum, n, floor2) ==
    IF floor2 = -1
    THEN LET c == Min(sum, n)
         IN IF 1000000 * c > 32768 * n THEN 1000000 * c < 103622 * n ELSE TRUE
    ELSE LET b == floor2 * n
         IN IF 2 * sum > b THEN 2 * sum < 3 * b + (162 * b) \div 1000 ELSE TRUE

\* get_current_metrics() with every rms taken at its lower or at its upper
\* end
MetricsAt(e) ==
    LET n == Len(rms_buffer)
        sum == RmsSum(rms_buffer, e)
        floor2 == IF noise_floor.initial THEN -1 ELSE noise_floor[e]
        kind == IF n = 0 THEN "default" ELSE IF HasNan(rms_buffer) THEN "nan" ELSE "avg"
    IN [taken |-> TRUE,
        rms |-> kind,
        \* avg_rms is 1e-6 (-120 dB) with no frames and nan (-100 dB) with one
        quiet |-> IF kind = "avg" THEN QuietLevel(sum, n) ELSE TRUE,
        below80 |-> IF kind = "avg" THEN Below80(sum, n) ELSE TRUE,
        snr_low |-> IF kind = "avg" THEN SnrLow(sum, n, floor2) ELSE TRUE,
        clipping |-> AvgClip(clip_buffer),
        voice |-> AvgVoice(voice_buffer),
        latency |-> EstimateLatency(capture_timestamps, output_timestamps),
        codec |-> current_codec,
        sample_rate |-> current_sample_rate]

CurrentMetrics == {MetricsAt(e) : e \in {"lo", "hi"}}

\* faulty variant: a low SNR counts however few frames there are
VerdictAnyFrames(m) ==
    IF m.clipping.num > m.clipping.den
    THEN [acceptable |-> FALSE, reason |-> "Excessive clipping"]
    ELSE IF m.snr_low
    THEN [acceptable |-> FALSE, reason |-> "Low SNR"]
    ELSE IF m.quiet
    THEN [acceptable |-> FALSE, reason |-> "Signal too quiet"]
    ELSE IF m.latency.sum > latency_limit * m.latency.count
    THEN [acceptable |-> FALSE, reason |-> "High latency"]
    ELSE [acceptable |-> TRUE, reason |-> "Quality OK"]

\* is_quality_acceptable() on the metrics it has taken
Verdict(m) ==
    IF m.clipping.num > m.clipping.den
    THEN [acceptable |-> FALSE, reason |-> "Excessive clipping"]
    ELSE IF m.snr_low /\ frames_monitored > snr_frames
    THEN [acceptable |-> FALSE, reason |-> "Low SNR"]
    ELSE IF m.quiet
    THEN [acceptable |-> FALSE, reason |-> "Signal too quiet"]
    ELSE IF m.latency.sum > latency_limit * m.latency.count
    THEN [acceptable |-> FALSE, reason |-> "High latency"]
    ELSE [acceptable |-> TRUE, reason |-> "Quality OK"]

\* get_statistics() on the metrics it has taken
Statistics(m) ==
    [frames_monitored |-> frames_monitored,
     voice |-> m.voice,
     clipping_rate |-> [num |-> 100 * total_clipping_frames,
                        den |-> Max(1, frames_monitored)]]

\* estimate_latency() or get_current_metrics(), which reports its value
ReadLatency ==
    /\ \E op \in {"estimate_latency", "get_current_metrics"} :
       \E m \in CurrentMetrics :
          mcall' = [NoMonitorCall EXCEPT
                       !.op = op,
                       !.result = EstimateLatency(capture_timestamps, output_timestamps),
                       !.metrics = IF op = "get_current_metrics" THEN m ELSE NoMetrics]
    /\ UNCHANGED <<others, loop, config, stage_state, speaker_buffer, speaker_buffer_lock, call,
                   current_codec, current_sample_rate,
                   pushed, threads, rms_buffer, peak_buffer, clip_buffer, voice_buffer,
                   noise_samples, noise_floor, frames_monitored, total_clipping_frames,
                   capture_timestamps, output_timestamps, clock>>

\* is_quality_acceptable() or get_statistics(), each on fresh metrics
ReadQuality ==
    /\ \E op \in {"is_quality_acceptable", "get_statistics"} :
       \E m \in CurrentMetrics :
          mcall' = [NoMonitorCall EXCEPT
                       !.op = op,
                       !.result = m.latency,
                       !.metrics = m,
                       !.verdict = IF op = "is_quality_acceptable"
                                   THEN Verdict(m) ELSE NoVerdict,
                       !.stats = IF op = "get_statistics"
                                 THEN Statistics(m) ELSE NoStatistics]
    /\ UNCHANGED <<others, loop, config, stage_state, speaker_buffer, speaker_buffer_lock, call,
                   current_codec, current_sample_rate,
                   pushed, threads, rms_buffer, peak_buffer, clip_buffer, voice_buffer,
                   noise_samples, noise_floor, frames_monitored, total_clipping_frames,
                   capture_timestamps, output_timestamps, clock>>

\* set_codec_info(codec, sample_rate) when the codec is negotiated
SetCodecInfo ==
    /\ \E codec \in {"CVSD", "mSBC"} \ {current_codec} :
          /\ current_codec' = codec
          /\ current_sample_rate' = IF codec = "mSBC" THEN 16000 ELSE 8000
    /\ mcall' = [NoMonitorCall EXCEPT !.op = "set_codec_info",
                                      !.writes = {"current_codec", "current_sample_rate"}]
    /\ UNCHANGED <<others, loop, config, stage_state, speaker_buffer, speaker_buffer_lock, call,
                   pushed, threads, rms_buffer, peak_buffer, clip_buffer, voice_buffer,
                   noise_samples, noise_floor, frames_monitored, total_clipping_frames,
                   capture_timestamps, output_timestamps, clock>>

\* faulty variant: the noise floor estimate survives
ResetKeepsNoise ==
    /\ rms_buffer' = <<>>
    /\ peak_buffer' = <<>>
    /\ clip_buffer' = <<>>
    /\ voice_buffer' = <<>>
    /\ capture_timestamps' = <<>>
    /\ output_timestamps' = <<>>
    /\ frames_monitored' = 0
    /\ total_clipping_frames' = 0
    /\ mcall' = [NoMonitorCall EXCEPT !.op = "reset"]
    /\ UNCHANGED <<others, loop, config, stage_state, speaker_buffer, speaker_buffer_lock, call,
                   current_codec, current_sample_rate, noise_samples, noise_floor,
                   pushed, threads, clock>>

\* reset()
Reset ==
    /\ rms_buffer' = <<>>
    /\ peak_buffer' = <<>>
    /\ clip_buffer' = <<>>
    /\ voice_buffer' = <<>>
    /\ capture_timestamps' = <<>>
    /\ output_timestamps' = <<>>
    /\ noise_samples' = <<>>
    /\ frames_monitored' = 0
    /\ total_clipping_frames' = 0
    /\ noise_floor' = InitialNoiseFloor
    /\ mcall' = [NoMonitorCall EXCEPT !.op = "reset"]
    /\ UNCHANGED <<others, loop, config, stage_state, speaker_buffer, speaker_buffer_lock, call,
                   current_codec, current_sample_rate, pushed, threads, clock>>

\* AudioMonitor.__init__ with one of the given window sizes
MonitorConstructedWith(windows) ==
    /\ self_window_size \in windows
    /\ current_codec = "CVSD"
    /\ current_sample_rate = sample_rate
    /\ rms_buffer = <<>>
    /\ peak_buffer = <<>>
    /\ clip_buffer = <<>>
    /\ voice_buffer = <<>>
    /\ noise_samples = <<>>
    /\ noise_floor = InitialNoiseFloor
    /\ frames_monitored = 0
    /\ total_clipping_frames = 0
    /\ capture_timestamps = <<>>
    /\ output_timestamps = <<>>
    /\ clock = 0
    /\ mcall = NoMonitorCall

\* AudioMonitor(sample_rate=sample_rate): the default window
MonitorConstructed == MonitorConstructedWith({window_size})

\* the worker thread ids a run may use, in the order they are created
MaxWorkers == 2

\* self.audio_thread = None; also the holder of a lock nobody holds
NoThread == 0

Workers == 1..MaxWorkers

\* no call made on the manager yet
NoLoopCall == [op |-> "none", result |-> FALSE]

\* AudioManager.__init__: no worker, the stop signal clear
LoopConstructed ==
    /\ stop_event = FALSE
    /\ audio_thread = NoThread
    /\ audio_lock = NoThread
    /\ audio_state = "IDLE"
    /\ worker = [w \in Workers |-> "unborn"]
    /\ pc_stop = "idle"
    /\ capture_device = "None"
    /\ playback_device = "None"
    /\ lcall = NoLoopCall

\* self.agc_gain = 1.0, in millionths
GainOne == 1000000

\* no call followed in numbers yet
NoGainCall ==
    [op |-> "none", data |-> <<>>, skipped |-> FALSE, rms |-> 0, target |-> 0,
     before |-> GainOne, after |-> GainOne, total_before |-> 0,
     out |-> [same |-> TRUE, lo |-> 0, hi |-> 0],
     avg |-> [num |-> 0, den |-> 1]]

\* AudioPreprocessor.__init__: the gain and the cumulative gain
GainsConstructed ==
    /\ agc_gain_value = GainOne
    /\ total_gain_applied = 0
    /\ acall = NoGainCall

\* samples per element apply to the taps as well
taps == nlms_taps \div Block

\* no frame filtered in numbers yet
NoNlmsCall ==
    [op |-> "none", mic |-> <<>>, ref |-> <<>>, applied |-> FALSE, out |-> <<>>,
     before |-> <<>>, after |-> <<>>]

\* self.nlms_weights = np.zeros(512)
EchoConstructed ==
    /\ nlms_weights_value = [k \in 1..taps |-> 0]
    /\ ncall = NoNlmsCall

\* AudioManager.__init__(enable_preprocessing): the preprocessor is built
\* when preprocessing is enabled, no SCO socket, nothing played
SpeakerConstructedWith(enabled) ==
    /\ preprocessor \in {IF e THEN "AudioPreprocessor" ELSE "None" : e \in enabled}
    /\ sco_socket = "None"
    /\ heard = 0
    /\ rx = "idle"
    /\ rx_frame = 0
    /\ reference_log = <<>>
    /\ playback_log = <<>>

\* no call of the call manager yet
NoPhoneCall ==
    [op |-> "none", result |-> FALSE, before |-> "idle", sent |-> <<>>,
     fired |-> <<>>]

\* CallManager.__init__: idle, no RFCOMM socket, no call indicated
PhoneConstructed ==
    /\ call_state = "idle"
    /\ rfcomm_socket = "None"
    /\ call_indicator = 0
    /\ led = "disconnected"
    /\ ccall = NoPhoneCall

\* the reconnect threads a run may start
MaxReconnectThreads == 2
ReconnectThreads == 1..MaxReconnectThreads

\* delays are counted in 1024ths of a second, which keeps eleven
\* multiplications by 1.5 of a whole number of seconds exact
Seconds(n) == n * 1024

\* a thread that was never started
NoReconnectLoop ==
    [pc |-> "unborn", attempt |-> 0, total |-> 0, current_delay |-> 0,
     max_delay |-> 0, waits |-> <<>>, attempts |-> 0, untimely |-> FALSE]

\* BluetoothManager.__init__: disconnected, reconnecting enabled with five
\* attempts, 2.0 s at first and 30.0 s at most, no thread, the event clear
BluetoothConstructed ==
    /\ bt_state = "disconnected"
    /\ link = FALSE
    /\ auto_reconnect = TRUE
    /\ reconnect_attempts = 5
    /\ reconnect_delay = Seconds(2)
    /\ reconnect_max_delay = Seconds(30)
    /\ last_connected_device = "None"
    /\ stop_reconnect_event = FALSE
    /\ reconnect_thread = NoThread
    /\ rthread = [t \in ReconnectThreads |-> NoReconnectLoop]
    /\ pc_stopper = "idle"
    /\ pending = FALSE

BeyondConstructed ==
    SpeakerConstructedWith({TRUE}) /\ PhoneConstructed /\ BluetoothConstructed

OthersConstructed == GainsConstructed /\ EchoConstructed /\ BeyondConstructed

\* AudioPreprocessor.__init__, the rate and the flags given, with the
\* noise reduction levels and voice detectors to consider
PreprocessorConstructed(levels, detectors) ==
    /\ noise_reduction_level \in (IF enable_noise_reduction THEN levels ELSE {2})
    /\ speex_echo \in (IF enable_aec THEN {"None", "EchoCanceller"} ELSE {"None"})
    /\ vad \in (IF enable_noise_reduction THEN detectors ELSE {"None"})
    /\ hp_zi = IF enable_highpass THEN "lfilter_zi" ELSE "unset"
    /\ nlms_weights = "zeros"
    /\ noise_profile = "None"
    /\ noise_frames_collected = 0
    /\ agc_gain = "1.0"
    /\ frames_processed = 0
    /\ speaker_buffer = <<>>
    /\ speaker_buffer_lock = "free"
    /\ call = NoCall
    /\ pushed = 0
    /\ pc_capture = "idle"
    /\ pc_playback = "idle"
    /\ c_run = StartRun(Self, NoVector)
    /\ c_data = <<>>
    /\ c_seen = <<>>
    /\ c_ref = <<>>
    /\ p_pending = <<>>
    /\ committed = <<>>

\* AudioManager.__init__ with its preprocessor and its monitor
ConstructedWith(levels, detectors) ==
    /\ PreprocessorConstructed(levels, detectors)
    /\ MonitorConstructed
    /\ LoopConstructed
    /\ OthersConstructed

\* The default level and the energy rule: the level and the detector are
\* read only once calibration has ended, after noise_estimation_frames
\* frames, which the short runs below do not reach.
Constructed == ConstructedWith({2}, {"None"})

\* every rate and every set of enabled stages
Init ==
    /\ sample_rate \in SampleRates
    /\ enable_highpass \in BOOLEAN
    /\ enable_aec \in BOOLEAN
    /\ enable_noise_reduction \in BOOLEAN
    /\ enable_agc \in BOOLEAN
    /\ Constructed

Next ==
    \/ ProcessFrameCall(MaxFrames)
    \/ UpdateSpeakerSignal(MaxPushes)

Spec == Init /\ [][Next]_vars

\* ------------------------------------------------------------ SpecRing
\* narrow-band voice with echo cancellation, the reference fed for long
InitRing ==
    /\ sample_rate = 8000
    /\ enable_highpass = FALSE
    /\ enable_aec = TRUE
    /\ enable_noise_reduction = FALSE
    /\ enable_agc = FALSE
    /\ Constructed

NextRing ==
    \/ ProcessFrameCall(RingFrames)
    \/ UpdateSpeakerSignal(RingPushes)

SpecRing == InitRing /\ [][NextRing]_vars

\* ------------------------------------------------------------ SpecCalibration
\* wide-band voice with the high-pass filter and noise reduction, with and
\* without echo cancellation, every level and detector, run past the end
\* of calibration
CalibrationMicFrames ==
    {PcmFrame(frame_size, 0), PcmFrame(frame_size, 32767),
     Append(PcmFrame(frame_size, 0), 0)}

InitCalibration ==
    /\ sample_rate = 16000
    /\ enable_highpass = TRUE
    /\ enable_aec \in BOOLEAN
    /\ enable_noise_reduction = TRUE
    /\ enable_agc = FALSE
    /\ ConstructedWith(NoiseLevels, {"None", "Vad"})

NextCalibration ==
    \/ ProcessFrameOf(CalibrationMicFrames, CalibrationFrames)
    \/ UpdateSpeakerSignal(CalibrationPushes)
    \/ ResetNoiseProfile
    \/ GetQualityMetrics

SpecCalibration == InitCalibration /\ [][NextCalibration]_vars

\* ------------------------------------------------------------ SpecMonitor
\* wide-band voice with the high-pass filter and noise reduction, frames
\* through the pipeline and the monitor
InitMonitor ==
    /\ sample_rate = 16000
    /\ enable_highpass = TRUE
    /\ enable_aec = FALSE
    /\ enable_noise_reduction = TRUE
    /\ enable_agc = FALSE
    /\ Constructed

NextMonitor ==
    \/ ProcessFrameOf(MonitorMicFrames, MonitorFrames)
    \/ AnalyzeFrame(MonitorFrames)

SpecMonitor == InitMonitor /\ [][NextMonitor]_vars

\* ------------------------------------------------------------ SpecLatency
NextLatency ==
    \/ RecordCaptureTimestamp(LatencyStamps)
    \/ RecordOutputTimestamp(LatencyStamps)
    \/ ReadLatency

SpecLatency == InitMonitor /\ [][NextLatency]_vars

\* ------------------------------------------------------------ SpecWindow
\* a frame and the voice flag the audio loop passes with it: the answer of
\* _detect_voice_activity on the captured frame
Detected(frames) ==
    {[data |-> d, has_voice |-> v.has_voice, by |-> v.how] :
        d \in frames, v \in UNION {DetectVoiceActivity(ToFloat(FromBuffer(f))) : f \in frames}}

\* silence, full scale on either side, one sample in frame_size at full
\* scale, and the empty frame
Silence == PcmFrame(frame_size, 0)
FullScale == PcmFrame(frame_size, 32767)
MostNegative == PcmFrame(frame_size, -32768)
PartlyClipped == ToBytes([i \in 1..frame_size |-> IF i = 1 THEN 32767 ELSE 16384])

WindowInputs ==
    Detected({Silence}) \cup Detected({FullScale})
    \cup Direct({PartlyClipped})
    \cup {in \in Direct({MostNegative, <<>>}) : in.has_voice}

\* the monitor alone, its window two frames long, fed by the loop of a
\* manager whose pipeline has every stage disabled
InitWindow ==
    /\ sample_rate = 16000
    /\ enable_highpass = FALSE
    /\ enable_aec = FALSE
    /\ enable_noise_reduction = FALSE
    /\ enable_agc = FALSE
    /\ PreprocessorConstructed({2}, {"None"})
    /\ MonitorConstructedWith({2})
    /\ LoopConstructed
    /\ OthersConstructed

NextWindow ==
    \/ AnalyzeFrameOf(WindowInputs, WindowFrames)
    \/ RecordCaptureAfter({10}, WindowStamps)
    \/ RecordOutputAfter({10}, WindowStamps)
    \/ ReadQuality
    \/ SetCodecInfo
    \/ Reset

SpecWindow == InitWindow /\ [][NextWindow]_vars

\* ------------------------------------------------------------ SpecQuality
\* background noise at 0.02 of full scale, speech at 0.25, a signal at
\* 0.001, full scale and silence, each passed with the flag its source
\* gives it
Noise == PcmFrame(frame_size, 655)
Speech == PcmFrame(frame_size, 8192)
Faint == PcmFrame(frame_size, 33)

QualityInputs ==
    {in \in Direct({Noise}) : ~in.has_voice}
    \cup (IF frames_monitored < NoisePrefix THEN {}
          ELSE {in \in Direct({Speech, FullScale, Faint}) : in.has_voice}
               \cup {in \in Direct({Silence}) : ~in.has_voice})

\* a slow output path: 400 ms from one timestamp to the next
SlowDelays == {400}

NextQuality ==
    \/ AnalyzeFrameOf(QualityInputs, QualityFrames)
    \/ RecordCaptureAfter(SlowDelays, QualityStamps)
    \/ RecordOutputAfter(SlowDelays, QualityStamps)
    \/ ReadQuality

SpecQuality == InitWindow /\ [][NextQuality]_vars

\* ------------------------------------------------------------ the gain in numbers
\* Gains are whole millionths, levels whole 32768ths, the argument and the
\* value of tanh whole thousandths; every division rounds toward the old
\* gain.  Frames are of one magnitude, so that their rms is that magnitude.

\* self.agc_target_level = 10 ** (agc_target_level_db / 20) for -6.0 dB
agc_target_level == 501187
\* self.agc_attack = 0.01 and self.agc_release = 0.001, as the part of the
\* gap to the target taken per frame
agc_attack_part == 100
agc_release_part == 1000

\* target_gain = self.agc_target_level / rms, for rms > 0 (kept below 2^30)
TargetGain(rms) ==
    IF agc_target_level \div rms >= 2 ^ 15 THEN 2 ^ 30
    ELSE (agc_target_level \div rms) * 32768
         + ((agc_target_level % rms) * 32768) \div rms

\* faulty variant: attack and release rates exchanged
MoveGainSlowAttack(g, t) ==
    IF t > g THEN g + (t - g) \div agc_release_part
    ELSE g - (g - t) \div agc_attack_part

\* self.agc_gain += rate * (target_gain - self.agc_gain)
MoveGain(g, t) ==
    IF t > g THEN g + (t - g) \div agc_attack_part
    ELSE g - (g - t) \div agc_release_part

\* np.clip(self.agc_gain, 0.5, 10.0)
ClipGain(g) == Max(GainOne \div 2, Min(agc_gain_max * GainOne, g))

\* the argument of tanh for samples of magnitude a: a / 32768 * gain * 2.0
TanhArgument(a, g) == (2 * a * (g \div 1000)) \div 32768

\* bounds on tanh(y), y >= 0: y - y^3/3 <= tanh(y) <= y - y^3/3 + 2y^5/15
\* up to 1.0, and tanh(1.0) > 0.761 beyond
TanhLo(y) ==
    IF y > 1000 THEN 761
    ELSE Max(0, y - (((y * y * y) \div 1000000 + 1) \div 3 + 1))

TanhHi(y) ==
    IF y > 1000 THEN 1000
    ELSE LET y3 == (y * y * y) \div 1000000
             y5 == ((y3 + 1) * ((y * y) \div 1000 + 1)) \div 1000 + 1
         IN Min(y, y - y3 \div 3 + (2 * y5) \div 15 + 1)

\* faulty variant: the gain moves on a silent frame too
ApplyAgcNoGuard(g, total, data) ==
    LET pcm == FromBuffer(data)
        g1 == ClipGain(MoveGain(g, 2 ^ 30))
    IN [skipped |-> FALSE, rms |-> RmsOf(pcm).lo, target |-> 2 ^ 30,
        gain |-> g1, total |-> total + g1,
        out |-> [same |-> FALSE, lo |-> 0, hi |-> 0]]

\* _apply_agc on the frame decoded from data, the gain g and the cumulative
\* gain total in hand: the gain and total it leaves, and tanh(gained * 2.0)
\* between bounds (the output is half of it)
ApplyAgcExact(g, total, data) ==
    LET pcm == FromBuffer(data)
        rms == RmsOf(pcm).lo
        t == TargetGain(rms)
        g1 == ClipGain(MoveGain(g, t))
        y == TanhArgument(PeakOf(pcm), g1)
    IN IF RmsOf(pcm).hi = 0
       THEN [skipped |-> TRUE, rms |-> 0, target |-> 0, gain |-> g, total |-> total,
             out |-> [same |-> Encode(ToFloat(pcm)).bytes = data, lo |-> 0, hi |-> 0]]
       ELSE [skipped |-> FALSE, rms |-> rms, target |-> t, gain |-> g1,
             total |-> total + g1,
             out |-> [same |-> FALSE, lo |-> TanhLo(y), hi |-> TanhHi(y)]]

\* avg_gain = self.total_gain_applied / max(1, self.frames_processed)
AvgGain(total, frames) == [num |-> total, den |-> Max(1, frames)]

\* process_frame(data) of a preprocessor that has only the AGC enabled, on
\* one of the given full frames
ProcessFrameAgc(frames, maxFrames) ==
    /\ frames_processed < maxFrames
    /\ enable_agc /\ ~enable_highpass /\ ~enable_aec /\ ~enable_noise_reduction
    /\ \E data \in frames :
       \E r \in {ApplyAgcExact(agc_gain_value, total_gain_applied, data)} :
          /\ agc_gain_value' = r.gain
          /\ total_gain_applied' = r.total
          /\ agc_gain' = IF r.skipped THEN agc_gain ELSE "adapted"
          /\ acall' = [NoGainCall EXCEPT
                          !.op = "process_frame", !.data = data,
                          !.skipped = r.skipped, !.rms = r.rms, !.target = r.target,
                          !.before = agc_gain_value, !.after = r.gain,
                          !.total_before = total_gain_applied, !.out = r.out]
    /\ frames_processed' = frames_processed + 1
    /\ UNCHANGED <<echo, beyond, loop, monitor, config, hp_zi, nlms_weights, noise_profile,
                   noise_frames_collected, speex_echo, speaker_buffer,
                   speaker_buffer_lock, call, pushed, threads>>

\* get_quality_metrics(), its avg_agc_gain followed
GetAvgGain ==
    /\ acall' = [NoGainCall EXCEPT
                    !.op = "get_quality_metrics",
                    !.before = agc_gain_value, !.after = agc_gain_value,
                    !.total_before = total_gain_applied,
                    !.avg = AvgGain(total_gain_applied, frames_processed)]
    /\ UNCHANGED <<agc_gain_value, total_gain_applied>>
    /\ UNCHANGED <<echo, beyond, loop, monitor, config, stage_state, speaker_buffer,
                   speaker_buffer_lock, call, pushed, threads>>

\* ------------------------------------------------------------ the NLMS filter in numbers
\* Weights are whole thousandths, samples whole 32768ths; one element of a
\* vector stands for Block samples, of the taps as of the frames.

\* self.nlms_mu = 0.3, in thousandths
nlms_mu == 300
\* the regularization 1e-6 in squared 32768ths
nlms_eps == 1074

\* x = padded_speaker[i:i + filter_len][::-1]: the reference up to sample
\* i, the latest first, zeros before its start
ReferenceWindow(ref, i) == [k \in 1..taps |-> IF i - k + 1 >= 1 THEN ref[i - k + 1] ELSE 0]

\* np.dot(a, b)
Dot(a, b) == SumOver([k \in 1..Len(a) |-> a[k] * b[k]], 1, Len(a))

\* faulty variant: a leaky filter, whose weights decay on every sample
NlmsSampleLeaky(w, m, x) ==
    LET e == m - Dot(w, x) \div 1000
        norm == Dot(x, x) + nlms_eps
    IN [out |-> e,
        w |-> [k \in 1..taps |-> w[k] - w[k] \div 10 + (nlms_mu * e * x[k]) \div norm]]

\* one pass of the loop of _apply_nlms_aec: the error for mic sample m
\* against the window x, and the weights it leaves
NlmsSample(w, m, x) ==
    LET e == m - Dot(w, x) \div 1000
        norm == Dot(x, x) + nlms_eps
    IN [out |-> e,
        w |-> [k \in 1..taps |-> w[k] + (nlms_mu * e * x[k]) \div norm]]

\* _apply_nlms_aec(mic_signal, speaker_signal) from sample i on, the output
\* so far and the weights in hand
RECURSIVE ApplyNlmsFrom(_, _, _, _, _)
ApplyNlmsFrom(w, mic, ref, i, out) ==
    IF i > Len(mic) THEN [out |-> out, w |-> w]
    ELSE LET s == CHOOSE r \in {NlmsSample(w, mic[i], ReferenceWindow(ref, i))} : TRUE
         IN ApplyNlmsFrom(s.w, mic, ref, i + 1, Append(out, s.out))

ApplyNlmsExact(w, mic, ref) == ApplyNlmsFrom(w, mic, ref, 1, <<>>)

\* update_speaker_signal(speaker_data) with one of the given chunks
UpdateSpeakerSignalWith(chunks, maxPushes) ==
    /\ pushed + SpeakerChunk <= maxPushes * SpeakerChunk
    /\ LockFree(speaker_buffer_lock)
    /\ enable_aec
    /\ \E chunk \in chunks :
          speaker_buffer' = DequeExtend(speaker_buffer, FromBuffer(chunk))
    /\ committed' = speaker_buffer'
    /\ pushed' = pushed + SpeakerChunk
    /\ call' = [NoCall EXCEPT !.op = "update_speaker_signal",
                              !.writes = {"speaker_buffer"}]
    /\ UNCHANGED <<others, loop, monitor, config, stage_state, speaker_buffer_lock,
                   pc_capture, pc_playback, c_run, c_data, c_seen, c_ref, p_pending>>

\* process_frame(data) of a preprocessor that has only the echo
\* cancellation enabled and no SpeexDSP engine, on one of the given full
\* frames
ProcessFrameNlms(frames, maxFrames) ==
    /\ frames_processed < maxFrames
    /\ enable_aec /\ ~enable_highpass /\ ~enable_agc /\ ~enable_noise_reduction
    /\ speex_echo = "None"
    /\ LockFree(speaker_buffer_lock)
    /\ \E data \in frames :
       LET mic == FromBuffer(data)
       IN IF InsufficientReference(speaker_buffer, Len(mic))
          THEN /\ ncall' = [NoNlmsCall EXCEPT !.op = "process_frame", !.mic = mic,
                                              !.out = mic,
                                              !.before = nlms_weights_value,
                                              !.after = nlms_weights_value]
               /\ UNCHANGED <<nlms_weights_value, nlms_weights>>
          ELSE \E r \in {ApplyNlmsExact(nlms_weights_value, mic,
                                         ReferenceSlice(speaker_buffer, Len(mic)))} :
               /\ nlms_weights_value' = r.w
               /\ nlms_weights' = "adapted"
               /\ ncall' = [op |-> "process_frame", mic |-> mic,
                            ref |-> ReferenceSlice(speaker_buffer, Len(mic)),
                            applied |-> TRUE, out |-> r.out,
                            before |-> nlms_weights_value, after |-> r.w]
    /\ frames_processed' = frames_processed + 1
    /\ UNCHANGED <<gains, beyond, loop, monitor, config, hp_zi, noise_profile,
                   noise_frames_collected, agc_gain, speex_echo, speaker_buffer,
                   speaker_buffer_lock, call, pushed, threads>>

\* ------------------------------------------------------------ SpecNlms
\* narrow-band voice, the far end loud for LoudPushes chunks and silent
\* from then on, for long enough that the loud chunks leave the buffer
LoudPushes == 2
NlmsPushes == 88
NlmsFrames == 2

FarEndChunks ==
    IF pushed < LoudPushes * SpeakerChunk
    THEN {PcmFrame(SpeakerChunk, 1000)}
    ELSE {PcmFrame(SpeakerChunk, 0)}

NlmsMicFrames == {PcmFrame(frame_size, v) : v \in {0, 1000, -2000}}

InitNlms ==
    /\ sample_rate = 8000
    /\ enable_highpass = FALSE
    /\ enable_aec = TRUE
    /\ enable_noise_reduction = FALSE
    /\ enable_agc = FALSE
    /\ Constructed
    /\ speex_echo = "None"

NextNlms ==
    \/ UpdateSpeakerSignalWith(FarEndChunks, NlmsPushes)
    \/ ProcessFrameNlms(NlmsMicFrames, NlmsFrames)

SpecNlms == InitNlms /\ [][NextNlms]_vars

\* ------------------------------------------------------------ SpecVad
\* a preprocessor with or without a detector, asked for the voice decision
\* between frames and resets
VadFrames == 2

NextVad ==
    \/ DetectVoiceActivityCall(MicFrames)
    \/ ProcessFrameOf(CalibrationMicFrames, VadFrames)
    \/ ResetNoiseProfile

SpecVad == InitCalibration /\ [][NextVad]_vars

\* ------------------------------------------------------------ SpecAgc
\* a preprocessor with the AGC alone, fed one constant frame again and
\* again: from levels whose target gain is above the largest gain (0.05 of
\* full scale and below) to full scale
AgcFrames == 14

AgcLevels == {65, 164, 328, 655, 1092, 1638, 3277, 13107, 26214, 32767}

\* the amplitude of the "very quiet signal" of test_agc_quiet_signal_boost,
\* 0.05 of full scale
quiet_amplitude == 1638

AgcInputs == {PcmFrame(frame_size, v) : v \in AgcLevels}

InitAgc ==
    /\ sample_rate = 16000
    /\ enable_highpass = FALSE
    /\ enable_aec = FALSE
    /\ enable_noise_reduction = FALSE
    /\ enable_agc = TRUE
    /\ Constructed

NextAgc ==
    ProcessFrameAgc(IF frames_processed = 0 THEN AgcInputs ELSE {acall.data}, AgcFrames)

SpecAgc == InitAgc /\ [][NextAgc]_vars

\* ------------------------------------------------------------ SpecGain
\* the same preprocessor fed silent, quiet and full-scale frames in any
\* order, its metrics read at any point
GainFrames == 5

GainInputs == {PcmFrame(frame_size, v) : v \in {0, 1638, 32767}}

NextGain ==
    \/ ProcessFrameAgc(GainInputs, GainFrames)
    \/ GetAvgGain

SpecGain == InitAgc /\ [][NextGain]_vars

\* ------------------------------------------------------------ the audio loop
\* what the loop's actions leave alone: the preprocessor and the monitor,
\* whose part in an iteration ProcessFrame and AnalyzeFrame model
OutsideLoop ==
    <<config, stage_state, speaker_buffer, speaker_buffer_lock, call, pushed,
      threads, monitor, others>>

\* threading.Thread.is_alive()
IsAlive(w) == worker[w] \notin {"unborn", "done"}

\* self.audio_thread and self.audio_thread.is_alive()
LoopRunning == audio_thread # NoThread /\ IsAlive(audio_thread)

\* the thread threading.Thread(...) creates next
NextWorker ==
    CHOOSE w \in Workers :
        worker[w] = "unborn" /\ \A v \in Workers : v < w => worker[v] # "unborn"

\* initialize(): both devices opened, or the capture or the playback
\* device failing to open
Initialize ==
    /\ pc_stop = "idle"
    /\ \E outcome \in {"ok", "no_capture", "no_playback"} :
          /\ capture_device' = IF outcome = "no_capture" THEN capture_device ELSE "PCM"
          /\ playback_device' = IF outcome = "ok" THEN "PCM" ELSE playback_device
          /\ lcall' = [op |-> "initialize", result |-> outcome = "ok"]
    /\ UNCHANGED <<stop_event, audio_thread, audio_lock, audio_state, worker, pc_stop>>
    /\ UNCHANGED OutsideLoop

\* start_audio_loop(): False when the loop is running or a device is
\* missing, else the stop signal is cleared and a new thread is started
StartAudioLoopStep ==
    /\ pc_stop = "idle"
    /\ IF LoopRunning \/ capture_device = "None" \/ playback_device = "None"
       THEN /\ lcall' = [op |-> "start_audio_loop", result |-> FALSE]
            /\ UNCHANGED <<stop_event, audio_thread, worker, audio_state>>
       ELSE /\ \E w \in Workers : worker[w] = "unborn"
            /\ stop_event' = FALSE
            /\ audio_thread' = NextWorker
            /\ worker' = [worker EXCEPT ![NextWorker] = "check"]
            /\ audio_state' = "ACTIVE_CALL"
            /\ lcall' = [op |-> "start_audio_loop", result |-> TRUE]
    /\ UNCHANGED <<audio_lock, pc_stop, capture_device, playback_device>>

StartAudioLoop == StartAudioLoopStep /\ UNCHANGED OutsideLoop

\* stop_audio_loop() up to the join: the stop signal is set; with no
\* thread the call is over at once
StopAudioLoopStep ==
    /\ pc_stop = "idle"
    /\ stop_event' = TRUE
    /\ IF audio_thread = NoThread
       THEN /\ audio_state' = "IDLE"
            /\ lcall' = [op |-> "stop_audio_loop", result |-> TRUE]
            /\ UNCHANGED pc_stop
       ELSE /\ pc_stop' = "joining"
            /\ lcall' = [op |-> "stop_audio_loop", result |-> FALSE]
            /\ UNCHANGED audio_state
    /\ UNCHANGED <<audio_thread, audio_lock, worker, capture_device, playback_device>>

StopAudioLoop == StopAudioLoopStep /\ UNCHANGED OutsideLoop

\* stop_audio_loop() from the join on: join(timeout=2.0) returns when the
\* thread has ended, or after the timeout while the thread is held in the
\* blocking capture read; the thread is forgotten either way
StopAudioLoopJoin ==
    /\ pc_stop = "joining"
    /\ worker[audio_thread] \in {"done", "read"}
    /\ audio_thread' = NoThread
    /\ audio_state' = "IDLE"
    /\ pc_stop' = "idle"
    /\ lcall' = [op |-> "stop_audio_loop", result |-> worker[audio_thread] = "done"]
    /\ UNCHANGED <<stop_event, audio_lock, worker, capture_device, playback_device>>
    /\ UNCHANGED OutsideLoop

\* one step of thread w in _audio_loop: the test of the stop signal, the
\* lock taken for the capture read, the read returning, the frame handled
\* (with or without data for the playback device), the playback write
AudioLoop(w) ==
    /\ \/ /\ worker[w] = "check"
          /\ worker' = [worker EXCEPT ![w] = IF stop_event THEN "done" ELSE "acquire"]
          /\ UNCHANGED audio_lock
       \/ /\ worker[w] = "acquire"
          /\ audio_lock = NoThread
          /\ audio_lock' = w
          /\ worker' = [worker EXCEPT ![w] = "read"]
       \/ /\ worker[w] = "read"
          /\ audio_lock' = NoThread
          /\ worker' = [worker EXCEPT ![w] = "frame"]
       \/ /\ worker[w] = "frame"
          /\ \/ /\ worker' = [worker EXCEPT ![w] = "check"]
                /\ UNCHANGED audio_lock
             \/ /\ audio_lock = NoThread
                /\ audio_lock' = w
                /\ worker' = [worker EXCEPT ![w] = "write"]
       \/ /\ worker[w] = "write"
          /\ audio_lock' = NoThread
          /\ worker' = [worker EXCEPT ![w] = "check"]
    /\ UNCHANGED <<stop_event, audio_thread, audio_state, pc_stop, capture_device,
                   playback_device, lcall>>
    /\ UNCHANGED OutsideLoop

\* ------------------------------------------------------------ SpecLoop
\* a manager whose loop is started and stopped at will
NextLoop ==
    \/ Initialize
    \/ StartAudioLoop
    \/ StopAudioLoop
    \/ StopAudioLoopJoin
    \/ \E w \in Workers : AudioLoop(w)

SpecLoop == InitWindow /\ [][NextLoop]_vars

\* the threads are scheduled, the capture read returns, and the caller of
\* stop_audio_loop leaves its join
SpecLoopFair ==
    /\ SpecLoop
    /\ \A w \in Workers : WF_vars(AudioLoop(w))
    /\ WF_vars(StopAudioLoopJoin)

\* ------------------------------------------------------------ the way to the loudspeaker
\* what the actions on the way to the loudspeaker leave alone
OutsideSpeaker ==
    <<config, stage_state, speaker_buffer, speaker_buffer_lock, call, pushed,
      threads, monitor, gains, echo, bluetooth>>

\* a frame written to the playback device: which frame, by which path, and
\* whether update_speaker_signal had been called with it by then
Written(frame, path) ==
    [frame |-> frame, path |-> path,
     referenced |-> \E i \in 1..Len(reference_log) : reference_log[i] = frame]

\* connect_sco(): the socket is opened
ConnectSco ==
    /\ sco_socket = "None"
    /\ sco_socket' = "socket"
    /\ UNCHANGED <<preprocessor, heard, rx, rx_frame, reference_log, playback_log>>
    /\ UNCHANGED <<phone, loop, OutsideSpeaker>>

\* _audio_loop, incoming_data = self.sco_socket.recv(...): a frame of the
\* far end arrives, or none is there
ScoReceive(maxFrames) ==
    /\ rx = "idle"
    /\ sco_socket # "None"
    /\ heard < maxFrames
    /\ heard' = heard + 1
    /\ rx_frame' = heard + 1
    /\ rx' = "reference"
    /\ UNCHANGED <<preprocessor, sco_socket, reference_log, playback_log>>
    /\ UNCHANGED <<phone, loop, OutsideSpeaker>>

\* _audio_loop, if self.preprocessor: update_speaker_signal(incoming_data)
ScoReference ==
    /\ rx = "reference"
    /\ reference_log' = IF preprocessor # "None"
                        THEN Append(reference_log, rx_frame)
                        ELSE reference_log
    /\ rx' = "write"
    /\ UNCHANGED <<preprocessor, sco_socket, heard, rx_frame, playback_log>>
    /\ UNCHANGED <<phone, loop, OutsideSpeaker>>

\* _audio_loop, with self._audio_lock: if self.playback_device:
\* self.playback_device.write(incoming_data)
ScoWrite ==
    /\ rx = "write"
    /\ playback_log' = IF playback_device # "None"
                       THEN Append(playback_log, Written(rx_frame, "_audio_loop"))
                       ELSE playback_log
    /\ rx' = "idle"
    /\ UNCHANGED <<preprocessor, sco_socket, heard, rx_frame, reference_log>>
    /\ UNCHANGED <<phone, loop, OutsideSpeaker>>

\* play_audio(data): the data is written to the playback device when there
\* is one
PlayAudio(maxFrames) ==
    /\ heard < maxFrames
    /\ heard' = heard + 1
    /\ playback_log' = IF playback_device # "None"
                       THEN Append(playback_log, Written(heard + 1, "play_audio"))
                       ELSE playback_log
    /\ UNCHANGED <<preprocessor, sco_socket, rx, rx_frame, reference_log>>
    /\ UNCHANGED <<phone, loop, OutsideSpeaker>>

\* ------------------------------------------------------------ SpecSpeaker
\* a manager with or without preprocessing, its devices opened, the far end
\* heard through the loop and sounds played with play_audio
SpeakerFrames == 4

InitSpeaker ==
    /\ sample_rate = 16000
    /\ enable_highpass = FALSE
    /\ enable_aec = TRUE
    /\ enable_noise_reduction = FALSE
    /\ enable_agc = FALSE
    /\ PreprocessorConstructed({2}, {"None"})
    /\ MonitorConstructed
    /\ LoopConstructed
    /\ GainsConstructed
    /\ EchoConstructed
    /\ SpeakerConstructedWith(BOOLEAN)
    /\ PhoneConstructed
    /\ BluetoothConstructed

NextSpeaker ==
    \/ Initialize
    \/ ConnectSco
    \/ ScoReceive(SpeakerFrames)
    \/ ScoReference
    \/ ScoWrite
    \/ PlayAudio(SpeakerFrames)

SpecSpeaker == InitSpeaker /\ [][NextSpeaker]_vars

\* ------------------------------------------------------------ the call manager
\* what the call manager's actions leave alone besides the loop
OutsidePhone ==
    <<config, stage_state, speaker_buffer, speaker_buffer_lock, call, pushed,
      threads, monitor, gains, echo, speaker, bluetooth>>

CallStates == {"idle", "incoming", "outgoing", "active", "held"}

\* AT_ATA = "ATA"
AT_ATA == "ATA"

\* CIEV_CALL, CIEV_CALLSETUP, CIEV_CALLHELD
CIEV_CALL == 2
CIEV_CALLSETUP == 3
CIEV_CALLHELD == 4
\* CALLSETUP_NONE .. CALLSETUP_ALERTING
CALLSETUP_NONE == 0
CALLSETUP_INCOMING == 1
CALLSETUP_OUTGOING == 2
CALLSETUP_ALERTING == 3

\* connect_rfcomm_fd(fd): the socket of the HFP profile is taken over
ConnectRfcomm ==
    /\ rfcomm_socket = "None"
    /\ rfcomm_socket' = "socket"
    /\ ccall' = [NoPhoneCall EXCEPT !.op = "connect_rfcomm_fd", !.result = TRUE,
                                    !.before = call_state]
    /\ UNCHANGED <<call_state, call_indicator, led>>
    /\ UNCHANGED <<loop, OutsidePhone>>

\* disconnect_rfcomm(): the socket is closed and forgotten
DisconnectRfcomm ==
    /\ rfcomm_socket # "None"
    /\ rfcomm_socket' = "None"
    /\ ccall' = [NoPhoneCall EXCEPT !.op = "disconnect_rfcomm", !.before = call_state]
    /\ UNCHANGED <<call_state, call_indicator, led>>
    /\ UNCHANGED <<loop, OutsidePhone>>

\* _send_at_command(command): the outcomes of the send, False without a
\* socket or on a socket error
SendAtCommand == IF rfcomm_socket = "None" THEN {FALSE} ELSE {TRUE, FALSE}

\* main.py, _handle_call_answered: the LED shows the call, the audio loop
\* is started
HandleCallAnswered ==
    /\ led' = "active_call"
    /\ StartAudioLoopStep

\* main.py, _handle_call_ended: the LED shows the connection, the audio
\* loop is stopped
HandleCallEnded ==
    /\ led' = "connected"
    /\ StopAudioLoopStep

\* faulty variant: the call is answered from whatever state it is in
MayAnswerAlways(st) == TRUE

\* answer_call, if self.state != CallState.INCOMING: return False
MayAnswer(st) == st = "incoming"

\* answer_call(): ATA is sent for an incoming call; when the send succeeds
\* the call is active and on_call_answered is called
AnswerCall ==
    IF ~MayAnswer(call_state)
    THEN /\ ccall' = [NoPhoneCall EXCEPT !.op = "answer_call", !.before = call_state]
         /\ UNCHANGED <<call_state, rfcomm_socket, call_indicator, led>>
         /\ UNCHANGED <<loop, OutsidePhone>>
    ELSE \E sent \in SendAtCommand :
         IF sent
         THEN /\ call_state' = "active"
              /\ HandleCallAnswered
              /\ ccall' = [op |-> "answer_call", result |-> TRUE, before |-> call_state,
                           sent |-> <<AT_ATA>>, fired |-> <<"on_call_answered">>]
              /\ UNCHANGED <<rfcomm_socket, call_indicator>>
              /\ UNCHANGED OutsidePhone
         ELSE /\ ccall' = [NoPhoneCall EXCEPT !.op = "answer_call",
                                              !.before = call_state]
              /\ UNCHANGED <<call_state, rfcomm_socket, call_indicator, led>>
              /\ UNCHANGED <<loop, OutsidePhone>>

\* _handle_at_command("RING"): an incoming call, on_incoming_call is called
HandleRing ==
    /\ rfcomm_socket # "None"
    /\ call_state' = "incoming"
    /\ led' = "incoming_call"
    /\ ccall' = [NoPhoneCall EXCEPT !.op = "RING", !.before = call_state,
                                    !.fired = <<"on_incoming_call">>]
    /\ UNCHANGED <<rfcomm_socket, call_indicator>>
    /\ UNCHANGED <<loop, OutsidePhone>>

\* _handle_ciev("+CIEV: idx,value") for the call, callsetup and callheld
\* indicators
HandleCiev(idx, value) ==
    /\ rfcomm_socket # "None"
    /\ UNCHANGED rfcomm_socket
    /\ UNCHANGED OutsidePhone
    /\ IF idx = CIEV_CALL
       THEN /\ call_indicator' = value
            /\ IF value = 1 /\ call_state # "active"
               THEN /\ call_state' = "active"
                    /\ HandleCallAnswered
                    /\ ccall' = [NoPhoneCall EXCEPT !.op = "+CIEV", !.before = call_state,
                                                    !.fired = <<"on_call_answered">>]
               ELSE IF value = 0 /\ call_state # "idle"
               THEN /\ call_state' = "idle"
                    /\ HandleCallEnded
                    /\ ccall' = [NoPhoneCall EXCEPT !.op = "+CIEV", !.before = call_state,
                                                    !.fired = <<"on_call_ended">>]
               ELSE /\ ccall' = [NoPhoneCall EXCEPT !.op = "+CIEV", !.before = call_state]
                    /\ UNCHANGED <<call_state, led, loop>>
       ELSE IF idx = CIEV_CALLSETUP
       THEN /\ UNCHANGED call_indicator
            /\ IF value = CALLSETUP_INCOMING
               THEN /\ call_state' = "incoming"
                    /\ led' = "incoming_call"
                    /\ ccall' = [NoPhoneCall EXCEPT !.op = "+CIEV", !.before = call_state,
                                                    !.fired = <<"on_incoming_call">>]
                    /\ UNCHANGED loop
               ELSE IF value = CALLSETUP_OUTGOING
               THEN /\ call_state' = "outgoing"
                    /\ ccall' = [NoPhoneCall EXCEPT !.op = "+CIEV", !.before = call_state]
                    /\ UNCHANGED <<led, loop>>
               ELSE IF /\ value = CALLSETUP_NONE
                       /\ call_indicator = 0
                       /\ call_state \in {"incoming", "outgoing"}
               THEN /\ call_state' = "idle"
                    /\ HandleCallEnded
                    /\ ccall' = [NoPhoneCall EXCEPT !.op = "+CIEV", !.before = call_state,
                                                    !.fired = <<"on_call_ended">>]
               ELSE /\ ccall' = [NoPhoneCall EXCEPT !.op = "+CIEV", !.before = call_state]
                    /\ UNCHANGED <<call_state, led, loop>>
       ELSE /\ UNCHANGED <<call_indicator, led, loop>>
            /\ call_state' = IF value > 0 THEN "held" ELSE call_state
            /\ ccall' = [NoPhoneCall EXCEPT !.op = "+CIEV", !.before = call_state]

\* ------------------------------------------------------------ SpecPhone
\* the headset with its devices opened or not, the phone announcing,
\* setting up, holding and ending calls, and the user answering at any
\* moment
NextPhone ==
    \/ Initialize
    \/ ConnectRfcomm
    \/ DisconnectRfcomm
    \/ HandleRing
    \/ \E idx \in {CIEV_CALL, CIEV_CALLSETUP, CIEV_CALLHELD} :
          \E value \in IF idx = CIEV_CALLSETUP
                        THEN CALLSETUP_NONE..CALLSETUP_ALERTING
                        ELSE {0, 1} :
             HandleCiev(idx, value)
    \/ AnswerCall
    \/ StopAudioLoopJoin
    \/ \E w \in Workers : AudioLoop(w)

SpecPhone == InitWindow /\ [][NextPhone]_vars

\* ------------------------------------------------------------ the Bluetooth manager
\* The manager as it is constructed, its callbacks not set.

\* what the Bluetooth manager's actions leave alone
OutsideBluetooth ==
    <<config, stage_state, speaker_buffer, speaker_buffer_lock, call, pushed,
      threads, monitor, loop, gains, echo, speaker, phone>>

\* threading.Thread.is_alive() of a reconnect thread
ReconnectAlive(t) == rthread[t].pc \notin {"unborn", "done"}

\* self._reconnect_thread and self._reconnect_thread.is_alive()
ReconnectRunning == reconnect_thread # NoThread /\ ReconnectAlive(reconnect_thread)

\* the thread the next threading.Thread(...) creates
NextReconnectThread ==
    CHOOSE t \in ReconnectThreads :
        rthread[t].pc = "unborn" /\ \A v \in ReconnectThreads : v < t => rthread[v].pc # "unborn"

\* current_delay = min(current_delay * 1.5, self.reconnect_max_delay)
Backoff(current_delay, max_delay) ==
    IF (current_delay * 3) \div 2 < max_delay
    THEN (current_delay * 3) \div 2
    ELSE max_delay

\* configure_reconnect(auto_reconnect, attempts, delay, max_delay), called
\* while no reconnect thread is alive
ConfigureReconnect(auto, attempts, delay, max_delay) ==
    /\ \A t \in ReconnectThreads : ~ReconnectAlive(t)
    /\ pc_stopper = "idle"
    /\ auto_reconnect' = auto
    /\ reconnect_attempts' = attempts
    /\ reconnect_delay' = delay
    /\ reconnect_max_delay' = max_delay
    /\ UNCHANGED <<bt_state, link, last_connected_device, stop_reconnect_event,
                   reconnect_thread, rthread, pc_stopper, pending>>
    /\ UNCHANGED OutsideBluetooth

\* _on_properties_changed with Connected true: the state is CONNECTED, the
\* device is remembered and the stop event is set
DeviceConnected ==
    /\ ~link
    /\ link' = TRUE
    /\ bt_state' = "connected"
    /\ last_connected_device' = "device"
    /\ stop_reconnect_event' = TRUE
    /\ pending' = FALSE
    /\ UNCHANGED <<auto_reconnect, reconnect_attempts, reconnect_delay,
                   reconnect_max_delay, reconnect_thread, rthread, pc_stopper>>
    /\ UNCHANGED OutsideBluetooth

\* _on_properties_changed with Connected false: the state is DISCONNECTED
\* and, with auto_reconnect and a device remembered,
\* _start_reconnect_thread() is called: nothing while a reconnect thread is
\* alive, else the stop event is cleared and a new thread is started, which
\* takes reconnect_delay as its first delay
DeviceDisconnected ==
    /\ link
    /\ link' = FALSE
    /\ bt_state' = "disconnected"
    /\ IF auto_reconnect /\ last_connected_device # "None"
       THEN /\ pending' = TRUE
            /\ IF ReconnectRunning
               THEN UNCHANGED <<stop_reconnect_event, reconnect_thread, rthread>>
               ELSE /\ \E t \in ReconnectThreads : rthread[t].pc = "unborn"
                    /\ stop_reconnect_event' = FALSE
                    /\ reconnect_thread' = NextReconnectThread
                    /\ rthread' = [rthread EXCEPT ![NextReconnectThread] =
                                     [pc |-> "top", attempt |-> 1,
                                      total |-> reconnect_attempts,
                                      current_delay |-> reconnect_delay,
                                      max_delay |-> reconnect_max_delay,
                                      waits |-> <<>>, attempts |-> 0,
                                      untimely |-> FALSE]]
       ELSE UNCHANGED <<pending, stop_reconnect_event, reconnect_thread, rthread>>
    /\ UNCHANGED <<auto_reconnect, reconnect_attempts, reconnect_delay,
                   reconnect_max_delay, last_connected_device, pc_stopper>>
    /\ UNCHANGED OutsideBluetooth

\* _on_hfp_connected: the profile is connected on a device BlueZ holds
\* connected; the state is CONNECTED
HfpConnected ==
    /\ link
    /\ bt_state' = "connected"
    /\ UNCHANGED <<link, auto_reconnect, reconnect_attempts, reconnect_delay,
                   reconnect_max_delay, last_connected_device, stop_reconnect_event,
                   reconnect_thread, rthread, pc_stopper, pending>>
    /\ UNCHANGED OutsideBluetooth

\* stop_reconnect() up to the join: the stop event is set
StopReconnect ==
    /\ pc_stopper = "idle"
    /\ stop_reconnect_event' = TRUE
    /\ pending' = FALSE
    /\ pc_stopper' = IF reconnect_thread = NoThread THEN "idle" ELSE "joining"
    /\ UNCHANGED <<bt_state, link, auto_reconnect, reconnect_attempts, reconnect_delay,
                   reconnect_max_delay, last_connected_device, reconnect_thread,
                   rthread>>
    /\ UNCHANGED OutsideBluetooth

\* stop_reconnect() from the join on: join(timeout=2.0) returns when the
\* thread has ended, or after the timeout while the thread is held in the
\* D-Bus call of connect_device; the thread is forgotten either way
StopReconnectJoin ==
    /\ pc_stopper = "joining"
    /\ rthread[reconnect_thread].pc \in {"done", "connecting"}
    /\ reconnect_thread' = NoThread
    /\ pc_stopper' = "idle"
    /\ UNCHANGED <<bt_state, link, auto_reconnect, reconnect_attempts, reconnect_delay,
                   reconnect_max_delay, last_connected_device, stop_reconnect_event,
                   rthread, pending>>
    /\ UNCHANGED OutsideBluetooth

\* one step of thread t in _reconnect_loop: the checks at the top of an
\* iteration; the wait, and when it times out the call of connect_device;
\* the return of that call; the sleep after it and the backoff
ReconnectLoop(t) ==
    LET r == rthread[t]
        backed == [r EXCEPT !.pc = "top", !.attempt = r.attempt + 1,
                            !.current_delay = Backoff(r.current_delay, reconnect_max_delay)]
    IN
    /\ \/ /\ r.pc = "top"
          /\ rthread' = [rthread EXCEPT ![t].pc =
                           IF \/ r.attempt > r.total
                              \/ stop_reconnect_event
                              \/ bt_state = "connected"
                           THEN "done" ELSE "wait"]
          /\ UNCHANGED <<bt_state, pending>>
       \/ /\ r.pc = "wait"
          /\ IF stop_reconnect_event
             THEN /\ rthread' = [rthread EXCEPT ![t].pc = "done"]
                  /\ UNCHANGED pending
             ELSE IF last_connected_device # "None"
             THEN /\ rthread' = [rthread EXCEPT ![t] =
                                   [r EXCEPT !.pc = "connecting",
                                             !.waits = Append(r.waits, r.current_delay),
                                             !.attempts = r.attempts + 1,
                                             !.untimely = r.untimely \/ bt_state = "connected"]]
                  /\ pending' = FALSE
             ELSE /\ rthread' = [rthread EXCEPT ![t] =
                                   [backed EXCEPT !.waits = Append(r.waits, r.current_delay)]]
                  /\ UNCHANGED pending
          /\ UNCHANGED bt_state
       \/ /\ r.pc = "connecting"
          /\ \/ /\ bt_state' = "connecting"
                /\ rthread' = [rthread EXCEPT ![t].pc = "sleep"]
             \/ /\ rthread' = [rthread EXCEPT ![t] = backed]
                /\ UNCHANGED bt_state
          /\ UNCHANGED pending
       \/ /\ r.pc = "sleep"
          /\ rthread' = [rthread EXCEPT ![t] =
                           IF bt_state = "connected" THEN [r EXCEPT !.pc = "done"]
                           ELSE backed]
          /\ UNCHANGED <<bt_state, pending>>
    /\ UNCHANGED <<link, auto_reconnect, reconnect_attempts, reconnect_delay,
                   reconnect_max_delay, last_connected_device, stop_reconnect_event,
                   reconnect_thread, pc_stopper>>
    /\ UNCHANGED OutsideBluetooth

\* ------------------------------------------------------------ SpecReconnect
\* a phone that connects and disconnects at will, a manager configured
\* between the runs of the reconnect loop, and stop_reconnect called at any
\* moment
ReconnectSettings ==
    {<<TRUE, 1, Seconds(2), Seconds(30)>>,
     <<TRUE, 3, Seconds(2), Seconds(4)>>,
     <<TRUE, 2, Seconds(60), Seconds(30)>>,
     <<FALSE, 2, Seconds(2), Seconds(30)>>}

NextReconnect ==
    \/ \E c \in ReconnectSettings : ConfigureReconnect(c[1], c[2], c[3], c[4])
    \/ DeviceConnected
    \/ DeviceDisconnected
    \/ HfpConnected
    \/ StopReconnect
    \/ StopReconnectJoin
    \/ \E t \in ReconnectThreads : ReconnectLoop(t)

SpecReconnect == InitWindow /\ [][NextReconnect]_vars

\* the reconnect threads are scheduled, their waits, sleeps and D-Bus calls
\* return, and the caller of stop_reconnect leaves its join
SpecReconnectFair ==
    /\ SpecReconnect
    /\ \A t \in ReconnectThreads : WF_vars(ReconnectLoop(t))
    /\ WF_vars(StopReconnectJoin)

\* ------------------------------------------------------------ SpecReset
\* a monitor that hears noise until its noise floor is in effect, is told
\* the codec, records timestamps, and is reset at any point
NextReset ==
    \/ AnalyzeFrameOf({in \in Direct({Noise}) : ~in.has_voice}, QualityFrames)
    \/ RecordCaptureAfter({10}, WindowStamps)
    \/ RecordOutputAfter({10}, WindowStamps)
    \/ SetCodecInfo
    \/ Reset

SpecReset == InitWindow /\ [][NextReset]_vars

\* ------------------------------------------------------------ SpecScenario
\* a call as test_real_world_scenario plays it: noise while the noise floor
\* is calibrated, speech, then pauses
calibration_frames == 25
speech_frames == 100
pause_frames == 25

ScenarioFrames == calibration_frames + speech_frames + pause_frames

ScenarioInputs ==
    IF frames_monitored < calibration_frames
       \/ frames_monitored >= calibration_frames + speech_frames
    THEN {in \in Direct({Noise}) : ~in.has_voice}
    ELSE {in \in Direct({Speech}) : in.has_voice}

NextScenario ==
    \/ AnalyzeFrameOf(ScenarioInputs, ScenarioFrames)
    \/ ReadLatency
    \/ ReadQuality

SpecScenario == InitMonitor /\ [][NextScenario]_vars

\* ------------------------------------------------------------ SpecContinuous
\* ten seconds of audio as test_continuous_monitoring plays them: silence,
\* speech, then noise
silence_until == 100
speech_until == 400
continuous_frames == 500

ContinuousInputs ==
    IF frames_monitored < silence_until
    THEN {in \in Direct({Silence}) : ~in.has_voice}
    ELSE IF frames_monitored < speech_until
    THEN {in \in Direct({Speech}) : in.has_voice}
    ELSE {in \in Direct({Noise}) : ~in.has_voice}

NextContinuous ==
    \/ AnalyzeFrameOf(ContinuousInputs, continuous_frames)
    \/ ReadQuality

SpecContinuous == InitMonitor /\ [][NextContinuous]_vars

\* ------------------------------------------------------------ SpecThreads
\* The capture thread inside process_frame and the playback thread inside
\* update_speaker_signal, one step per statement that touches the lock or
\* the deque.  deque.extend appends its elements one at a time.
CaptureBegin(maxFrames) ==
    /\ pc_capture = "idle"
    /\ frames_processed < maxFrames
    /\ \E data \in MicFrames :
       \E r \in Stage1(Decode(Self, data)) :
          /\ c_data' = data
          /\ c_run' = r
          /\ pc_capture' = IF r.exc = "" /\ enable_aec THEN "aec" ELSE "rest"
    /\ UNCHANGED <<others, loop, monitor, config, stage_state, speaker_buffer, speaker_buffer_lock, call,
                   pushed, pc_playback, c_seen, c_ref, p_pending, committed>>

\* with self.speaker_buffer_lock:
CaptureAcquire ==
    /\ pc_capture = "aec"
    /\ LockFree(speaker_buffer_lock)
    /\ speaker_buffer_lock' = "capture"
    /\ c_run' = EnterAec(c_run)
    /\ pc_capture' = "check"
    /\ UNCHANGED <<others, loop, monitor, config, stage_state, speaker_buffer, call, pushed, pc_playback,
                   c_data, c_seen, c_ref, p_pending, committed>>

\* if len(self.speaker_buffer) < len(audio):
CaptureCheck ==
    /\ pc_capture = "check"
    /\ c_seen' = speaker_buffer
    /\ pc_capture' = IF InsufficientReference(speaker_buffer, c_run.audio.n)
                     THEN "noref" ELSE "copy"
    /\ UNCHANGED <<others, loop, monitor, config, stage_state, speaker_buffer, speaker_buffer_lock, call,
                   pushed, pc_playback, c_run, c_data, c_ref, p_pending, committed>>

\* speaker_ref = np.array(list(self.speaker_buffer)[:len(audio)])
CaptureCopy ==
    /\ pc_capture = "copy"
    /\ c_ref' = ReferenceSlice(speaker_buffer, c_run.audio.n)
    /\ pc_capture' = "release"
    /\ UNCHANGED <<others, loop, monitor, config, stage_state, speaker_buffer, speaker_buffer_lock, call,
                   pushed, pc_playback, c_run, c_data, c_seen, p_pending, committed>>

\* the with block is left, by return audio or by falling out of it
CaptureRelease ==
    /\ pc_capture \in {"noref", "release"}
    /\ speaker_buffer_lock' = "free"
    /\ IF pc_capture = "noref"
       THEN /\ c_run' = LeaveAec(NoReference(c_run))
            /\ pc_capture' = "rest"
       ELSE /\ c_run' = c_run
            /\ pc_capture' = "cancel"
    /\ UNCHANGED <<others, loop, monitor, config, stage_state, speaker_buffer, call, pushed, pc_playback,
                   c_data, c_seen, c_ref, p_pending, committed>>

\* the engine or the NLMS fallback, on the copied reference
CaptureCancel ==
    /\ pc_capture = "cancel"
    /\ \E x \in CancelEcho(c_run, c_ref) : c_run' = LeaveAec(x)
    /\ pc_capture' = "rest"
    /\ UNCHANGED <<others, loop, monitor, config, stage_state, speaker_buffer, speaker_buffer_lock, call,
                   pushed, pc_playback, c_data, c_seen, c_ref, p_pending, committed>>

\* noise reduction, AGC, encoding, return
CaptureRest ==
    /\ pc_capture = "rest"
    /\ \E r3 \in Stage3(c_run) :
       \E r4 \in Stage4(r3) :
          /\ Assign(Finish(r4))
          /\ call' = CallOf(c_data, Finish(r4))
    /\ pc_capture' = "idle"
    /\ UNCHANGED <<others, loop, monitor, config, speaker_buffer, speaker_buffer_lock, pushed, pc_playback,
                   c_run, c_data, c_seen, c_ref, p_pending, committed>>

\* update_speaker_signal: np.frombuffer, astype, / 32768.0
PlaybackBegin(maxPushes) ==
    /\ pc_playback = "idle"
    /\ enable_aec
    /\ pushed + SpeakerChunk <= maxPushes * SpeakerChunk
    /\ p_pending' = FromBuffer(SpeakerFrame(pushed, SpeakerChunk))
    /\ pc_playback' = "acquire"
    /\ UNCHANGED <<others, loop, monitor, config, stage_state, speaker_buffer, speaker_buffer_lock, call,
                   pushed, pc_capture, c_run, c_data, c_seen, c_ref, committed>>

\* with self.speaker_buffer_lock:
PlaybackAcquire ==
    /\ pc_playback = "acquire"
    /\ LockFree(speaker_buffer_lock)
    /\ speaker_buffer_lock' = "playback"
    /\ pc_playback' = "extend"
    /\ UNCHANGED <<others, loop, monitor, config, stage_state, speaker_buffer, call, pushed, pc_capture,
                   c_run, c_data, c_seen, c_ref, p_pending, committed>>

\* self.speaker_buffer.extend(speaker_float), one element
PlaybackExtend ==
    /\ pc_playback = "extend"
    /\ p_pending # <<>>
    /\ speaker_buffer' = DequeExtend(speaker_buffer, <<Head(p_pending)>>)
    /\ p_pending' = Tail(p_pending)
    /\ UNCHANGED <<others, loop, monitor, config, stage_state, speaker_buffer_lock, call, pushed, pc_capture,
                   pc_playback, c_run, c_data, c_seen, c_ref, committed>>

\* the with block is left
PlaybackRelease ==
    /\ pc_playback = "extend"
    /\ p_pending = <<>>
    /\ speaker_buffer_lock' = "free"
    /\ committed' = speaker_buffer
    /\ pushed' = pushed + SpeakerChunk
    /\ pc_playback' = "idle"
    /\ UNCHANGED <<others, loop, monitor, config, stage_state, speaker_buffer, call, pc_capture,
                   c_run, c_data, c_seen, c_ref, p_pending>>

\* a step of a thread that is inside a call
ThreadStep ==
    \/ CaptureAcquire
    \/ CaptureCheck
    \/ CaptureCopy
    \/ CaptureRelease
    \/ CaptureCancel
    \/ CaptureRest
    \/ PlaybackAcquire
    \/ PlaybackExtend
    \/ PlaybackRelease

InitThreads ==
    /\ sample_rate = 8000
    /\ enable_highpass \in BOOLEAN
    /\ enable_aec = TRUE
    /\ enable_noise_reduction = FALSE
    /\ enable_agc \in BOOLEAN
    /\ Constructed

NextThreads ==
    \/ CaptureBegin(ThreadFrames)
    \/ PlaybackBegin(ThreadPushes)
    \/ CaptureAcquire
    \/ CaptureCheck
    \/ CaptureCopy
    \/ CaptureRelease
    \/ CaptureCancel
    \/ CaptureRest
    \/ PlaybackAcquire
    \/ PlaybackExtend
    \/ PlaybackRelease

SpecThreads == InitThreads /\ [][NextThreads]_vars

\* ------------------------------------------------------------ properties
\* the last call was process_frame
IsProcessFrame == call.op = "process_frame"

\* the last call was process_frame on a frame of exactly 2N bytes
ValidFrame == IsProcessFrame /\ Len(call.data) = 2 * frame_size

\* the last call entered the stage
Entered(stage) == \E i \in 1..Len(call.stages) : call.stages[i] = stage

\* the enabled stages in the order of process_frame
EnabledStages ==
    (IF enable_highpass THEN <<"highpass">> ELSE <<>>)
    \o (IF enable_aec THEN <<"aec">> ELSE <<>>)
    \o (IF enable_noise_reduction THEN <<"noise_reduction">> ELSE <<>>)
    \o (IF enable_agc THEN <<"agc">> ELSE <<>>)

StageNames == {"highpass", "aec", "noise_reduction", "agc"}

\* the deque after k numbered samples were pushed and the oldest dropped
PushedSamples(k) ==
    [i \in 1..Min(k, speaker_buffer_maxlen) |-> Max(0, k - speaker_buffer_maxlen) + i]

\* the last n elements of a sequence
LastN(q, n) == SubSeq(q, Len(q) - Min(n, Len(q)) + 1, Len(q))

\* C1: when the echo reference holds fewer samples than the mic frame,
\* _apply_aec returns the frame it was given, unchanged, without cancelling,
\* and the call assigns neither the filter weights nor the reference buffer.
C1_NoReferenceState ==
    (IsProcessFrame /\ Entered("aec") /\ Len(speaker_buffer) < call.aec_in.n)
        => /\ call.aec = "noref"
           /\ call.aec_out = call.aec_in
           /\ "nlms_weights" \notin call.writes
           /\ "speaker_buffer" \notin call.writes

C1_NoReferenceStep ==
    (call' # call /\ call'.op = "process_frame" /\ call'.aec = "noref")
        => /\ nlms_weights' = nlms_weights
           /\ speaker_buffer' = speaker_buffer

C1_NoReferenceNoOp == [](C1_NoReferenceState) /\ [][C1_NoReferenceStep]_vars

\* C1 witness: a frame met a reference that was fed but is still too short
C1_Witness ==
    /\ IsProcessFrame
    /\ call.aec = "noref"
    /\ call.aec_in.n > 0
    /\ Len(speaker_buffer) > 0
    /\ Len(speaker_buffer) < call.aec_in.n

\* C3 (as claimed): the reference used for a frame of N samples is the N most
\* recently pushed speaker samples.
C3_MostRecentReference ==
    (ValidFrame /\ call.aec \in {"nlms", "speex", "speex_failed_nlms"})
        => call.ref = LastN(speaker_buffer, call.aec_in.n)

\* C5 (as claimed): process_frame fails for every input whose length is not
\* 2N bytes, and processes no such frame.
C5_InvalidFrameSize ==
    (IsProcessFrame /\ Len(call.data) # 2 * frame_size)
        => /\ call.exc # ""
           /\ call.stages \in {<<>>, <<"decode">>}

C7_FallbackState ==
    (IsProcessFrame /\ call.aec = "speex_failed_nlms" /\ call.aec_in.n > 0)
        => /\ call.aec_out.ops = Append(call.aec_in.ops, "nlms")
           /\ call.aec_out.n = call.aec_in.n
           /\ "nlms_weights" \in call.writes
           /\ call.raised # "aec"
           /\ speex_echo # "None"

C7_FallbackStep ==
    (/\ call.aec = "speex_failed_nlms"
     /\ call'.op = "process_frame"
     /\ call'.aec \notin {"off", "noref"})
        => call'.aec \in {"speex", "speex_failed_nlms"}

C7_EngineFailureFallsBack == [](C7_FallbackState) /\ [][C7_FallbackStep]_vars

\* C7 witness: the engine failed on a full frame and NLMS cancelled it
C7_Witness ==
    /\ ValidFrame
    /\ call.aec = "speex_failed_nlms"
    /\ call.aec_in.n > 0
    /\ Len(call.ref) = call.aec_in.n
    /\ call.exc = ""

\* C8 (as claimed): for every valid frame the stages applied are exactly the
\* enabled ones, once each, in the order high-pass, AEC, noise reduction, AGC.
C8_StageOrder == ValidFrame => call.stages = EnabledStages

\* C9: with the four stages disabled, process_frame returns the bytes of
\* every valid frame unchanged and assigns nothing but the frame counter.
C9_BypassIdentity ==
    (~enable_highpass /\ ~enable_aec /\ ~enable_noise_reduction /\ ~enable_agc)
        => /\ hp_zi = "unset"
           /\ nlms_weights = "zeros"
           /\ noise_profile = "None"
           /\ noise_frames_collected = 0
           /\ agc_gain = "1.0"
           /\ speaker_buffer = <<>>
           /\ ValidFrame => /\ call.exc = ""
                            /\ call.out.bytes = call.data
                            /\ call.out.nbytes = Len(call.data)
                            /\ call.writes = {"frames_processed"}

\* C9 witness: a frame of -32768 came back as it went in
C9_Witness ==
    /\ ~enable_highpass /\ ~enable_aec /\ ~enable_noise_reduction /\ ~enable_agc
    /\ ValidFrame
    /\ call.data = PcmFrame(frame_size, -32768)
    /\ call.out.bytes = call.data
    /\ frames_processed = 2

\* C10 (as claimed): a valid frame of 2N bytes always comes back as 2N bytes.
C10_SameLength ==
    ValidFrame => /\ call.exc = ""
                  /\ call.out.nbytes = 2 * frame_size

\* C4 (as claimed): the reference holds at most 8 times the 512 taps of the
\* NLMS filter, always the most recently pushed samples.
C4_CapacityOfTaps ==
    /\ Len(speaker_buffer) * Block <= nlms_taps * 8
    /\ speaker_buffer = PushedSamples(pushed)

\* C4 (amended): the reference holds at most aec_filter_length * 8 = 8192
\* samples (aec_filter_length = 1024; the NLMS filter has 512 taps), and a
\* push beyond that drops the oldest, leaving the most recently pushed.
C4_CapacityOfFilterLength ==
    /\ Len(speaker_buffer) * Block <= aec_filter_length * 8
    /\ speaker_buffer = PushedSamples(pushed)

\* C4 witness: more was pushed than fits, and the oldest samples are gone
C4_Witness ==
    /\ pushed > speaker_buffer_maxlen
    /\ Len(speaker_buffer) * Block = aec_filter_length * 8
    /\ speaker_buffer[1] = pushed - speaker_buffer_maxlen + 1
    /\ speaker_buffer[Len(speaker_buffer)] = pushed

\* C2: the capture thread reads the reference under the lock: what it checks
\* and what it copies is one buffer state, the result of whole pushes; the
\* lock is held exactly inside the two with blocks, is released on both ways
\* out of the read, and a thread inside a call can always take a step unless
\* it waits for the other, which can.
CaptureLocked == pc_capture \in {"check", "copy", "noref", "release"}
PlaybackLocked == pc_playback = "extend"

C11_CalibrationState ==
    /\ noise_frames_collected \in 0..noise_estimation_frames
    /\ (noise_frames_collected = 0) <=> (noise_profile = "None")
    /\ (IsProcessFrame /\ call.nr = "subtract")
          => noise_frames_collected = noise_estimation_frames

C11_CalibrationStep ==
    /\ (call'.op = "process_frame" /\ call'.nr # "off"
        /\ frames_processed' = frames_processed + 1)
          => IF noise_frames_collected < noise_estimation_frames
             THEN /\ call'.nr = "calibrate"
                  /\ call'.nr_out = call'.nr_in
                  /\ "noise_profile" \in call'.writes
                  /\ noise_profile' = "set"
                  /\ noise_frames_collected' = noise_frames_collected + 1
                  /\ call'.profile = IF noise_profile = "None" THEN "fresh" ELSE "ema"
             ELSE /\ call'.nr = "subtract"
                  /\ call'.nr_out.ops = Append(call'.nr_in.ops, "spectral_subtraction")
                  /\ noise_frames_collected' = noise_frames_collected
    /\ call'.op = "reset_noise_profile"
          => noise_profile' = "None" /\ noise_frames_collected' = 0

C11_CalibrationLastsK == [](C11_CalibrationState) /\ [][C11_CalibrationStep]_vars

\* C11 witness: the 26th frame after construction is the first subtracted
C11_Witness ==
    /\ IsProcessFrame
    /\ call.nr = "subtract"
    /\ frames_processed = noise_estimation_frames + 1
    /\ noise_frames_collected = noise_estimation_frames

C13_UpdateIffSilence ==
    (IsProcessFrame /\ call.nr = "subtract")
        => (("noise_profile" \in call.writes) <=> (call.voiced = "silence"))

\* C13 (amended): after calibration a frame updates the noise profile
\* exactly when it is classified non-voice and the level is 1..3; at level 0
\* the profile stays as calibration left it.
C13_UpdateIffSilenceAndLevel ==
    (IsProcessFrame /\ call.nr = "subtract")
        => /\ call.voiced \in {"voice", "silence"}
           /\ ("noise_profile" \in call.writes)
                 <=> (call.voiced = "silence" /\ noise_reduction_level > 0)
           /\ ("noise_profile" \in call.writes) => call.profile = "ema"

\* C13 witness: a voice frame at level 3 left the profile alone
C13_Witness ==
    /\ IsProcessFrame
    /\ call.nr = "subtract"
    /\ call.voiced = "voice"
    /\ noise_reduction_level = 3
    /\ "noise_profile" \notin call.writes

\* C14 (as claimed): the AGC gain is 1.0 at construction and within
\* [0.5, 10.0] after every process_frame call.
C14_GainInBounds ==
    /\ call.op = "none" => agc_gain = "1.0"
    /\ agc_gain \in {"1.0", "adapted"}

\* C15: with the AGC enabled and its gain within bounds, no value of a
\* returned frame exceeds full scale before encoding: the soft limiter
\* holds it within half of full scale.
C15_SoftLimited ==
    (IsProcessFrame /\ call.exc = "" /\ enable_agc /\ ~call.peak.nan)
        => /\ call.peak.max <= 32768
           /\ (call.out.ops # <<>> /\ call.out.ops[Len(call.out.ops)] = "agc")
                 => call.peak.max <= 16384

\* C15 witness: a full-scale frame left the AGC at half of full scale
C15_Witness ==
    /\ ValidFrame
    /\ call.exc = ""
    /\ enable_agc
    /\ ~enable_highpass
    /\ call.data = PcmFrame(frame_size, 32767)
    /\ call.out.ops = <<"agc">>
    /\ call.peak = [nan |-> FALSE, max |-> 16384]

\* C16: frames_processed is 0 at construction, goes up by one with every
\* process_frame call that returns, and is left alone by a call that
\* raises and by the other operations.
C16_CountStep ==
    frames_processed' = frames_processed
        + (IF call'.op = "process_frame" /\ call'.exc = "" THEN 1 ELSE 0)

C16_CountsReturnedFrames ==
    /\ frames_processed = 0
    /\ [][C16_CountStep]_vars
    /\ []((call.op # "process_frame" \/ call.exc # "")
             => "frames_processed" \notin call.writes)

\* C16 witness: a call raised after two had returned
C16_Witness ==
    /\ IsProcessFrame
    /\ call.exc # ""
    /\ frames_processed = 2

\* ------------------------------------------------------------ C17
\* the last monitor call was analyze_frame
IsAnalyzeFrame == mcall.op = "analyze_frame"

\* C17 (as claimed): analyze_frame fails for every frame whose length is not
\* 2N bytes, the empty frame and a short frame included, and such a frame
\* is neither analysed nor counted.
C17_MonitorInvalidFrameSize ==
    (IsAnalyzeFrame /\ Len(mcall.data) # 2 * frame_size)
        => /\ mcall.exc # ""
           /\ mcall.writes = {}

\* ------------------------------------------------------------ C18
\* the four ring buffers of the monitor hold the same number of entries
EqualLengths ==
    /\ Len(peak_buffer) = Len(rms_buffer)
    /\ Len(clip_buffer) = Len(rms_buffer)
    /\ Len(voice_buffer) = Len(rms_buffer)

\* C18 (as claimed): a process_frame or analyze_frame call that fails on an
\* invalid frame leaves the persistent state as it was, and the four ring
\* buffers of the monitor keep equal lengths.
C18_FailureLeavesState ==
    /\ (IsProcessFrame /\ ~ValidFrame /\ call.exc # "") => call.writes = {}
    /\ (IsAnalyzeFrame /\ Len(mcall.data) # 2 * frame_size /\ mcall.exc # "")
           => mcall.writes = {}
    /\ EqualLengths

\* ------------------------------------------------------------ C19
\* the last monitor call read the latency estimate
IsLatencyRead == mcall.op \in {"estimate_latency", "get_current_metrics"}

\* the outputs recorded after the capture c
OutputsAfter(outs, c) == {outs[j] : j \in {k \in 1..Len(outs) : outs[k] > c}}

\* the least of a set of numbers
SetMin(S) == CHOOSE x \in S : \A y \in S : x <= y

\* the delays from caps[i..] to the first output after each, as their sum
\* and their number
RECURSIVE DelaysToNextOutput(_, _, _)
DelaysToNextOutput(caps, outs, i) ==
    IF i > Len(caps) THEN [sum |-> 0, count |-> 0]
    ELSE LET rest == DelaysToNextOutput(caps, outs, i + 1)
             after == OutputsAfter(outs, caps[i])
         IN IF after # {}
            THEN [sum |-> rest.sum + (SetMin(after) - caps[i]), count |-> rest.count + 1]
            ELSE rest

\* the estimate as claimed: 0 below two entries, else the mean delay of the
\* last five captures to the closest output after each
ClaimedLatency(caps, outs) ==
    IF Len(caps) < 2 \/ Len(outs) < 2
    THEN [sum |-> 0, count |-> 0]
    ELSE DelaysToNextOutput(Tail5(caps, latency_window), outs, 1)

\* two means given as sum and number are the same value (the mean of
\* nothing is 0.0)
SameMean(a, b) ==
    IF a.count = 0 \/ b.count = 0
    THEN (IF a.count = 0 THEN 0 ELSE a.sum) = (IF b.count = 0 THEN 0 ELSE b.sum)
    ELSE a.sum * b.count = b.sum * a.count

\* C19 (as claimed): estimate_latency returns 0 when either buffer holds
\* fewer than two timestamps, and otherwise the mean, over the last five
\* captures, of the delay to the closest output after the capture, also for
\* a capture whose nearest output lies before it.
C19_LatencyToNextOutput ==
    IsLatencyRead
        => SameMean(mcall.result, ClaimedLatency(capture_timestamps, output_timestamps))

\* ------------------------------------------------------------ C20
\* C20 (as claimed): with one capture and one output recorded 50 ms after
\* it, estimate_latency and get_current_metrics report a latency within
\* 10 ms of 50.
C20_OneStampEach ==
    (/\ IsLatencyRead
     /\ Len(capture_timestamps) = 1
     /\ Len(output_timestamps) = 1
     /\ output_timestamps[1] = capture_timestamps[1] + 50)
        => /\ mcall.result.count > 0
           /\ 40 * mcall.result.count <= mcall.result.sum
           /\ mcall.result.sum <= 60 * mcall.result.count

\* ------------------------------------------------------------ C21
\* the last monitor call was is_quality_acceptable
IsVerdict == mcall.op = "is_quality_acceptable"

\* the four conditions on the metrics the call has taken
ClippingHigh == mcall.metrics.clipping.num > mcall.metrics.clipping.den
SnrLowWithFrames == mcall.metrics.snr_low /\ frames_monitored >= 50
TooQuiet == mcall.metrics.quiet
LatencyHigh == mcall.metrics.latency.sum > 300 * mcall.metrics.latency.count

\* C21: is_quality_acceptable returns not-acceptable exactly when the
\* clipping is above 1.0 %, or the SNR is below 10 dB with at least 50
\* frames analysed, or the RMS level is below -40 dB, or the latency is
\* above 300 ms; the reason it gives names a condition that holds, and the
\* verdict is acceptable otherwise.
C21_VerdictMatchesMetrics ==
    IsVerdict
        => /\ mcall.verdict.acceptable
                = ~(ClippingHigh \/ SnrLowWithFrames \/ TooQuiet \/ LatencyHigh)
           /\ mcall.verdict.reason = "Excessive clipping" => ClippingHigh
           /\ mcall.verdict.reason = "Low SNR" => SnrLowWithFrames
           /\ mcall.verdict.reason = "Signal too quiet" => TooQuiet
           /\ mcall.verdict.reason = "High latency" => LatencyHigh
           /\ mcall.verdict.reason = "Quality OK" <=> mcall.verdict.acceptable
           /\ mcall.verdict.reason
                \in {"Excessive clipping", "Low SNR", "Signal too quiet",
                     "High latency", "Quality OK"}

\* a verdict of low SNR on a signal that is neither clipped nor quiet
C21_Witness ==
    /\ IsVerdict
    /\ mcall.verdict.reason = "Low SNR"
    /\ ~TooQuiet
    /\ ~ClippingHigh

\* ------------------------------------------------------------ C22
\* the last monitor call analysed its frame
Analysed == IsAnalyzeFrame /\ mcall.exc = ""

\* the samples at or beyond full scale on either side
AtFullScale(pcm) ==
    Cardinality({i \in 1..Len(pcm) : pcm[i] >= 32767 \/ pcm[i] <= -32767})

\* C22 (as claimed): the clipping percentage pushed into the window for an
\* analysed frame is 100 * k / N, k the number of its samples at or beyond
\* full scale, -32768 included.
C22_ClippingCountsFullScale ==
    Analysed
        => LET pcm == FromBuffer(mcall.data)
               pushed_clip == clip_buffer[Len(clip_buffer)]
           IN /\ pushed_clip.of = Len(pcm)
              /\ pushed_clip.clipped = AtFullScale(pcm)

\* ------------------------------------------------------------ C23
\* the last monitor call analysed a frame that feeds the noise floor: no
\* voice and an rms above 0
Qualifying == Analysed /\ ~mcall.has_voice /\ RmsPositive(FromBuffer(mcall.data))

\* C23 (as claimed): after each frame analysed with has_voice false and an
\* rms above 0, the noise floor is the median of the most recent such rms
\* values, the last 50 at most, from the first of them on.
C23_FloorFollowsNoise ==
    Qualifying => noise_floor = NoiseMedian(noise_samples)

\* ------------------------------------------------------------ C24
\* the entries each ring buffer holds after the frames analysed since
\* construction or reset
Held == Min(frames_monitored, self_window_size)

\* C24 (as claimed): after n analyze_frame calls since construction or
\* reset each of the four ring buffers holds min(n, window_size) entries,
\* and each timestamp buffer holds at most 10.
C24_WindowHoldsLastFrames ==
    /\ Len(rms_buffer) = Held
    /\ Len(peak_buffer) = Held
    /\ Len(clip_buffer) = Held
    /\ Len(voice_buffer) = Held
    /\ Len(capture_timestamps) <= 10
    /\ Len(output_timestamps) <= 10

\* ------------------------------------------------------------ C25
\* the scenario has been played to its end
ScenarioPlayed == frames_monitored = ScenarioFrames

\* C25: with window size 100, after 25 non-voice frames, 100 voice frames
\* and 25 non-voice frames, voice_activity_percent is within 5 points of
\* 80 and is_quality_acceptable returns acceptable.
C25_ScenarioAcceptable ==
    ScenarioPlayed
        => /\ mcall.metrics.taken
                => /\ 75 * mcall.metrics.voice.den <= mcall.metrics.voice.num
                   /\ mcall.metrics.voice.num <= 85 * mcall.metrics.voice.den
           /\ IsVerdict => mcall.verdict.acceptable

\* the verdict taken at the end of the scenario
C25_Witness ==
    /\ ScenarioPlayed
    /\ self_window_size = 100
    /\ IsVerdict
    /\ mcall.metrics.voice.num = 75 * mcall.metrics.voice.den

\* ------------------------------------------------------------ C26
\* get_statistics() after the last of the continuous frames
ContinuousPlayed ==
    mcall.op = "get_statistics" /\ frames_monitored = continuous_frames

\* C26: the voice_activity_percent of get_statistics is the share of voice
\* frames among all frames analysed since construction: after 100
\* non-voice, 300 voice and 100 non-voice frames on a window of 100 it is
\* within 5 points of 60, and the frame count reported is 500.
C26_VoiceShareOfAllFrames ==
    ContinuousPlayed
        => /\ 55 * mcall.stats.voice.den <= mcall.stats.voice.num
           /\ mcall.stats.voice.num <= 65 * mcall.stats.voice.den
           /\ mcall.stats.frames_monitored = 500

\* ------------------------------------------------------------ C27
\* the analysis state AudioMonitor.__init__ builds
AsConstructed ==
    /\ rms_buffer = <<>>
    /\ peak_buffer = <<>>
    /\ clip_buffer = <<>>
    /\ voice_buffer = <<>>
    /\ capture_timestamps = <<>>
    /\ output_timestamps = <<>>
    /\ noise_samples = <<>>
    /\ noise_floor = InitialNoiseFloor
    /\ frames_monitored = 0
    /\ total_clipping_frames = 0

\* C27: reset returns the monitor to the freshly constructed state (empty
\* buffers and timestamps, zero counters, no noise samples, the initial
\* noise floor) and leaves the codec, the sample rate set by
\* set_codec_info and the window size as they were; a reset of a reset
\* monitor changes nothing.
C27_ResetRestoresConstruction ==
    [][mcall'.op = "reset"
          => /\ AsConstructed'
             /\ current_codec' = current_codec
             /\ current_sample_rate' = current_sample_rate
             /\ self_window_size' = self_window_size
             /\ mcall.op = "reset" => UNCHANGED monitor]_vars

\* a reset monitor that keeps the codec it was told and has seen time pass
C27_Witness ==
    /\ mcall.op = "reset"
    /\ AsConstructed
    /\ current_codec = "mSBC"
    /\ current_sample_rate = 16000
    /\ clock > 0

\* ------------------------------------------------------------ C28
\* the window holds frames of zeros only
OnlySilence ==
    /\ Len(rms_buffer) > 0
    /\ \A i \in 1..Len(rms_buffer) : ~rms_buffer[i].nan /\ rms_buffer[i].hi = 0

\* C28: when only all-zero frames have been analysed, get_current_metrics
\* reports an RMS level of at most -80 dB and a clipping percentage of 0;
\* the fallback voice detector classifies an all-zero frame as non-voice.
C28_SilenceIsQuietAndUnvoiced ==
    /\ mcall.metrics.taken /\ OnlySilence
          => /\ mcall.metrics.below80
             /\ mcall.metrics.clipping.num = 0
    /\ mcall.op = "analyze_frame" /\ mcall.by = "energy" /\ mcall.data = Silence
          => ~mcall.has_voice

\* metrics taken on a full window of silent frames
C28_Witness ==
    /\ mcall.metrics.taken
    /\ OnlySilence
    /\ Len(rms_buffer) = self_window_size
    /\ Len(clip_buffer) = self_window_size
    /\ mcall.metrics.below80

\* ------------------------------------------------------------ C29
\* the threads executing _audio_loop
Executing == {w \in Workers : IsAlive(w)}

\* C29: across any sequence of start_audio_loop and stop_audio_loop calls,
\* a stop whose join timed out while the worker was blocked in the capture
\* read and a new start included, at most one worker thread executes the
\* loop.
C29_AtMostOneWorker == Cardinality(Executing) <= 1

\* ------------------------------------------------------------ C30
\* stop_audio_loop has set the stop signal while w was running: the caller
\* is in the join on w, or has forgotten w
Signalled(w) == IsAlive(w) /\ (audio_thread # w \/ pc_stop = "joining")

\* C30: once stop_audio_loop has set the stop signal, the worker finishes
\* at most its current iteration, starts no new iteration and eventually
\* terminates; it ends only at the test of the stop signal, never in the
\* middle of a frame, and stop_audio_loop returns after its bounded wait.
C30_SignalledWorkerEnds ==
    /\ [][\A w \in Workers :
            /\ Signalled(w) /\ worker[w] = "check" => worker'[w] \in {"check", "done"}
            /\ worker'[w] = "done" => worker[w] \in {"check", "done"}]_vars
    /\ \A w \in Workers : Signalled(w) ~> worker[w] = "done"
    /\ pc_stop = "joining" ~> pc_stop = "idle"

\* ------------------------------------------------------------ C33
\* _apply_agc has updated the gain on a frame above the epsilon
GainUpdated == acall.op = "process_frame" /\ ~acall.skipped
\* the target gain of the frame was above the gain
Rising == acall.target > acall.before
LargestGain == agc_gain_max * GainOne

\* C33: an AGC update on a frame above the epsilon moves the gain toward
\* the target by 1 % of the gap when the target is above the gain and by
\* 0.1 % otherwise, never past the target; for a constant input whose
\* target is above the gain the gain rises on every frame until it is
\* held at 10.0, and from the tenth frame of a quiet input on the output
\* level is above the input level.
C33_GainApproachesTarget ==
    GainUpdated
        => /\ Rising
                => /\ acall.after <= Min(acall.target, LargestGain)
                   /\ acall.after > acall.before \/ acall.before = LargestGain
                   /\ \/ acall.after = LargestGain
                      \/ /\ 100 * (acall.after - acall.before) <= acall.target - acall.before
                         /\ 100 * (acall.after - acall.before) > acall.target - acall.before - 100
           /\ ~Rising
                => /\ acall.target <= acall.after
                   /\ acall.after <= acall.before
                   /\ 1000 * (acall.before - acall.after) <= acall.before - acall.target
                   /\ 1000 * (acall.before - acall.after) > acall.before - acall.target - 1000
           /\ acall.rms <= quiet_amplitude /\ frames_processed >= 10
                => /\ Rising
                   /\ acall.out.lo * 32768 > 2000 * (acall.rms + 1)

\* the tenth frame of the quiet signal, its gain still on the way up
C33_Witness ==
    /\ GainUpdated
    /\ frames_processed = 10
    /\ acall.rms = quiet_amplitude
    /\ acall.after > acall.before
    /\ acall.after < LargestGain
    /\ acall.out.lo * 32768 > 2000 * (acall.rms + 1)

\* ------------------------------------------------------------ C34
\* process_frame has returned from a frame whose rms is below the epsilon
SilentFrame ==
    acall.op = "process_frame" /\ RmsOf(FromBuffer(acall.data)).hi = 0

\* C34: on a frame whose RMS is below the near-zero epsilon the AGC stage
\* returns its input unchanged and leaves the gain and the cumulative gain
\* as they were.
C34_SilentFrameSkipsAgc ==
    SilentFrame
        => /\ acall.skipped
           /\ acall.out.same
           /\ agc_gain_value = acall.before
           /\ total_gain_applied = acall.total_before

\* a silent frame met with a gain that had left 1.0 and a total above 0
C34_Witness ==
    /\ SilentFrame
    /\ acall.out.same
    /\ agc_gain_value # GainOne
    /\ total_gain_applied > 0

\* ------------------------------------------------------------ C38
\* the avg_agc_gain get_quality_metrics would report
ReportedAvgGain == AvgGain(total_gain_applied, frames_processed)

\* C38: the avg_agc_gain of get_quality_metrics is the mean of the gains
\* over the frames on which the AGC applied gain: a frame on which the AGC
\* was skipped does not change the average reported.
C38_SkippedFramesKeepAverage ==
    [][acall'.op = "process_frame" /\ acall'.skipped
          => ReportedAvgGain'.num * ReportedAvgGain.den
                = ReportedAvgGain.num * ReportedAvgGain'.den]_vars

\* ------------------------------------------------------------ C35
\* _detect_voice_activity has returned
VoiceDecided == call.op = "_detect_voice_activity"

\* C35: the voice decision never raises; with no detector configured, or
\* when the detector raises, it is exactly rms(samples) > 0.01; and making
\* it changes no pipeline state.
C35_VoiceDecisionIsPure ==
    [][call'.op = "_detect_voice_activity"
          => /\ call'.exc = ""
             /\ call'.voiced \in {"voice", "silence"}
             /\ vad = "None" => call'.voice = "energy"
             /\ call'.voice \in {"energy", "vad_failed"}
                   => (call'.voiced = "voice")
                         = (ExactLevel(FromBuffer(call'.data)) = "high")
             /\ UNCHANGED <<stage_state, speaker_buffer, config>>]_vars

\* the energy rule answering for a detector that raised, on a frame just
\* above 0.01, with a noise estimate under way
C35_Witness ==
    /\ VoiceDecided
    /\ call.voice = "vad_failed"
    /\ call.voiced = "voice"
    /\ call.data = PcmFrame(frame_size, 328)
    /\ noise_frames_collected > 0

\* ------------------------------------------------------------ C37
\* C37: after any number of analyze_frame calls the monitor keeps at most
\* 50 non-voice RMS samples for its noise-floor estimate.
C37_NoiseSamplesBounded == Len(noise_samples) <= noise_window

\* ------------------------------------------------------------ C36
\* the NLMS filter has run against a reference slice of zeros
SilentReference ==
    /\ ncall.op = "process_frame"
    /\ ncall.applied
    /\ \A i \in 1..Len(ncall.ref) : ncall.ref[i] = 0

\* C36: when every sample of the reference slice is zero the NLMS filter
\* returns the mic frame unchanged and leaves every weight unchanged,
\* whatever the weights were before.
C36_SilentReferenceKeepsWeights ==
    SilentReference
        => /\ ncall.out = ncall.mic
           /\ ncall.after = ncall.before
           /\ nlms_weights_value = ncall.before

\* a mic frame filtered against silence with weights that had adapted
C36_Witness ==
    /\ SilentReference
    /\ \E k \in 1..taps : ncall.before[k] # 0
    /\ \E i \in 1..Len(ncall.mic) : ncall.mic[i] # 0
    /\ ncall.out = ncall.mic

\* ------------------------------------------------------------ C31
\* C31: every frame written to the playback device has first been handed
\* to update_speaker_signal, by the loop's receive path and by play_audio
\* alike.
C31_ReferenceBeforePlayback ==
    preprocessor # "None"
        => \A i \in 1..Len(playback_log) : playback_log[i].referenced

\* the receive path of the loop on its own keeps the order
LoopReferencesBeforeWrite ==
    preprocessor # "None"
        => \A i \in 1..Len(playback_log) :
              playback_log[i].path = "_audio_loop" => playback_log[i].referenced

\* ------------------------------------------------------------ C32
\* answer_call() has just returned
Answered == ccall.op = "answer_call"

\* C32: answer_call succeeds only for an incoming call: it then has sent
\* ATA, the call is active and on_call_answered has started the call's
\* audio; in every other state, or when ATA could not be sent, it returns
\* False, the state is as it was and no callback has fired.
C32_AnswerOnlyIncoming ==
    [][AnswerCall
         => IF ccall'.result
            THEN /\ call_state = "incoming"
                 /\ ccall'.sent = <<AT_ATA>>
                 /\ call_state' = "active"
                 /\ ccall'.fired = <<"on_call_answered">>
                 /\ lcall'.op = "start_audio_loop"
            ELSE /\ call_state' = call_state
                 /\ ccall'.fired = <<>>
                 /\ ccall'.sent = <<>>
                 /\ UNCHANGED <<led, loop>>]_vars

\* an incoming call answered with the loop started, after answers that
\* were refused
C32_Witness ==
    /\ Answered
    /\ ccall.result
    /\ ccall.before = "incoming"
    /\ call_state = "active"
    /\ lcall = [op |-> "start_audio_loop", result |-> TRUE]
    /\ LoopRunning

\* an answer refused because the send failed, the call still incoming
AnswerSendFailed ==
    /\ Answered
    /\ ~ccall.result
    /\ ccall.before = "incoming"
    /\ call_state = "incoming"

\* ------------------------------------------------------------ C39
\* a run makes no more attempts than it was given
AttemptsBounded == \A t \in ReconnectThreads : rthread[t].attempts <= rthread[t].total

\* a wait has been sat through before every attempt
WaitBeforeAttempt == \A t \in ReconnectThreads : Len(rthread[t].waits) >= rthread[t].attempts

\* no wait is longer than the reconnect_max_delay of its run
WaitsCapped ==
    \A t \in ReconnectThreads :
       \A i \in 1..Len(rthread[t].waits) : rthread[t].waits[i] <= rthread[t].max_delay

\* the waits of a run never decrease
WaitsGrow ==
    \A t \in ReconnectThreads :
       \A i \in 1..Len(rthread[t].waits) - 1 : rthread[t].waits[i] <= rthread[t].waits[i + 1]

\* no attempt is made with the stop event set or the state CONNECTED
NoUntimelyAttempt == \A t \in ReconnectThreads : ~rthread[t].untimely

\* every run of the loop ends
ReconnectLoopEnds == \A t \in ReconnectThreads : ReconnectAlive(t) ~> ~ReconnectAlive(t)

\* C39: one run of the reconnect loop makes at most reconnect_attempts
\* attempts, waits before each of them, never longer than
\* reconnect_max_delay and never shorter than the wait before, makes no
\* attempt once the stop event is set or the state is CONNECTED, and ends.
C39_ReconnectLoopBounded ==
    /\ [](AttemptsBounded /\ WaitBeforeAttempt /\ WaitsCapped /\ WaitsGrow
           /\ NoUntimelyAttempt)
    /\ ReconnectLoopEnds

\* ------------------------------------------------------------ C40
\* at most one reconnect thread is alive
OneReconnectThread == Cardinality({t \in ReconnectThreads : ReconnectAlive(t)}) <= 1

\* a disconnect is followed by a reconnect attempt, by the device
\* connecting again or by stop_reconnect
DisconnectLeadsToAttempt == pending ~> ~pending

\* C40: after a disconnect with auto_reconnect enabled and a device
\* remembered a reconnect attempt is eventually made, unless the device
\* connects again or stop_reconnect is called, also when an earlier
\* reconnect thread is still alive; and at most one reconnect thread is
\* alive at any time.
C40_DisconnectReconnects ==
    /\ []OneReconnectThread
    /\ DisconnectLeadsToAttempt

====
